---------------------------- MODULE Spec2Model ----------------------------
(***************************************************************************)
(* A model of the allsky capture station: the scheduled-capture loop       *)
(* (image_manager.ScheduledCapture), the weather cache                     *)
(* (weather_manager.WeatherManager), the retention sweep                   *)
(* (image_manager.StorageManager.cleanup_old_files), the image store and   *)
(* its index (image_manager.ImageManager), the retry decorator             *)
(* (exceptions.retry_on_failure), the error history                        *)
(* (exceptions.ErrorHandler), the exposure settings and the sun data cache *)
(* (allsky_complete.AstronomyCalculator), the capture callback with the     *)
(* /capture_image route (allsky_complete.py), and the cache of celestial   *)
(* objects (astronomy_manager.AstronomyManager).                           *)
(*                                                                         *)
(* Each component has its own specification (SchedSpec, WeatherSpec,       *)
(* RetentionSpec, ImageSpec, LoadSpec, QuerySpec, IndexSpec, RetrySpec,    *)
(* ErrSpec, ClassSpec, SunSpec, GateSpec, CamSpec, AstroSpec,              *)
(* HandlerSpec); a specification leaves the other components' variables    *)
(* unchanged.                                                              *)
(*                                                                         *)
(* start() and stop() of the scheduler are called by one client, one call  *)
(* at a time; the loop threads run concurrently with it.  The weather      *)
(* cache is called by several threads at once.  ImageSpec, LoadSpec,       *)
(* QuerySpec, ErrSpec, SunSpec and AstroSpec take the calls one at a time; *)
(* IndexSpec interleaves the threads that rewrite the index, CamSpec the   *)
(* threads that capture and HandlerSpec the threads in handle_error.       *)
(***************************************************************************)
EXTENDS Integers, Sequences, FiniteSets, TLC

(***************************************************************************)
(* Bounds of the model.                                                    *)
(***************************************************************************)
\* start() calls issued in one behaviour; also the number of loop threads
\* that can ever be spawned.
MaxStarts == 3

Threads == 1..MaxStarts

Min(a, b) == IF a <= b THEN a ELSE b

(***************************************************************************)
(* ScheduledCapture                                                        *)
(***************************************************************************)
VARIABLES
    is_running,        \* self.is_running
    stop_event,        \* self.stop_event's flag
    thread,            \* self.thread: 0 for None, else the id of a Thread
    auto_capture,      \* self.auto_capture (configuration, fixed)
    capture_interval,  \* self.capture_interval (configuration, fixed)
    night_only,        \* self.night_only (configuration, fixed)
    weather_check,     \* self.weather_check (configuration, fixed)
    tpc,               \* position of each loop thread in _capture_loop
    twait,             \* timeout a thread passed to stop_event.wait (0: not waiting)
    notified,          \* threads woken by stop_event.set() while in wait()
    sawSignal,         \* threads whose loop condition read the cancellation
    ctl,               \* position of the client calling start()/stop()
    startRet,          \* what the last start() returned
    nstart,            \* start() calls made so far
    nthreads           \* Thread objects created so far

schedVars == <<is_running, stop_event, thread, auto_capture, capture_interval,
               night_only, weather_check, tpc, twait, notified, sawSignal,
               ctl, startRet, nstart, nthreads>>

\* Values of image.capture_interval the model is run with (seconds).
Intervals == {30, 3600}

\* datetime.now().hour
Hours == 0..23

\* The cap of the wait after a failed iteration (seconds).
ErrorWaitCap == 60

WaitPcs == {"wait", "errwait"}

Alive(t) == tpc[t] \notin {"unborn", "dead"}

\* Where the thread self.thread refers to is
CurrentLoopPc == IF thread = 0 THEN "none" ELSE tpc[thread]

AliveLoops == {t \in Threads : Alive(t)}

\* ScheduledCapture.__init__: the fields that do not come from the
\* configuration
SchedFields ==
    /\ is_running = FALSE
    /\ stop_event = FALSE
    /\ thread = 0
    /\ tpc = [t \in Threads |-> "unborn"]
    /\ twait = [t \in Threads |-> 0]
    /\ notified = {}
    /\ sawSignal = [t \in Threads |-> FALSE]
    /\ ctl = "idle"
    /\ startRet = FALSE
    /\ nstart = 0
    /\ nthreads = 0

\* ScheduledCapture.__init__ with a config_manager: any configuration
SchedInit ==
    /\ SchedFields
    /\ auto_capture \in BOOLEAN
    /\ capture_interval \in Intervals
    /\ night_only \in BOOLEAN
    /\ weather_check \in BOOLEAN

\* The night that ends before six o'clock.
ShouldCapture_TwelveHours(hour) ==
    IF night_only /\ ~(hour >= 18 \/ hour < 6) THEN FALSE ELSE TRUE

\* ScheduledCapture._should_capture for the wall-clock hour `hour`
ShouldCapture(hour) ==
    IF night_only /\ ~(hour >= 18 \/ hour <= 6) THEN FALSE ELSE TRUE

\* Start without the test of is_running: every call with auto-capture enabled
\* spawns a loop.
Start_NoRunningCheck ==
    /\ ctl = "idle"
    /\ nstart < MaxStarts
    /\ nstart' = nstart + 1
    /\ IF ~auto_capture
       THEN /\ startRet' = FALSE
            /\ UNCHANGED <<is_running, stop_event, thread, tpc, nthreads>>
       ELSE /\ is_running' = TRUE
            /\ stop_event' = FALSE
            /\ nthreads' = nthreads + 1
            /\ thread' = nthreads + 1
            /\ tpc' = [tpc EXCEPT ![nthreads + 1] = "check"]
            /\ startRet' = TRUE
    /\ UNCHANGED <<auto_capture, capture_interval, night_only, weather_check,
                   twait, notified, sawSignal, ctl>>

\* ScheduledCapture.start: the whole call
Start ==
    /\ ctl = "idle"
    /\ nstart < MaxStarts
    /\ nstart' = nstart + 1
    /\ IF is_running \/ ~auto_capture
       THEN /\ startRet' = FALSE
            /\ UNCHANGED <<is_running, stop_event, thread, tpc, nthreads>>
       ELSE /\ is_running' = TRUE
            /\ stop_event' = FALSE
            /\ nthreads' = nthreads + 1
            /\ thread' = nthreads + 1
            /\ tpc' = [tpc EXCEPT ![nthreads + 1] = "check"]
            /\ startRet' = TRUE
    /\ UNCHANGED <<auto_capture, capture_interval, night_only, weather_check,
                   twait, notified, sawSignal, ctl>>

\* ScheduledCapture.stop: the early return, else is_running = False
StopBegin ==
    /\ ctl = "idle"
    /\ IF ~is_running
       THEN UNCHANGED <<is_running, ctl>>
       ELSE /\ is_running' = FALSE
            /\ ctl' = "stop_set"
    /\ UNCHANGED <<stop_event, thread, auto_capture, capture_interval,
                   night_only, weather_check, tpc, twait, notified, sawSignal,
                   startRet, nstart, nthreads>>

\* ScheduledCapture.stop: stop_event.set(), which wakes every thread that is
\* inside stop_event.wait, then the test that guards the join
StopSet ==
    /\ ctl = "stop_set"
    /\ stop_event' = TRUE
    /\ notified' = notified \cup {t \in Threads : tpc[t] \in WaitPcs}
    /\ ctl' = IF thread # 0 /\ Alive(thread) THEN "stop_join" ELSE "idle"
    /\ UNCHANGED <<is_running, thread, auto_capture, capture_interval,
                   night_only, weather_check, tpc, twait, sawSignal,
                   startRet, nstart, nthreads>>

\* ScheduledCapture.stop: thread.join(timeout=5) returns because the thread
\* has ended
StopJoinDone ==
    /\ ctl = "stop_join"
    /\ ~Alive(thread)
    /\ ctl' = "idle"
    /\ UNCHANGED <<is_running, stop_event, thread, auto_capture,
                   capture_interval, night_only, weather_check, tpc, twait,
                   notified, sawSignal, startRet, nstart, nthreads>>

\* ScheduledCapture.stop: thread.join(timeout=5) gives up.  The 5 s pass only
\* while the joined thread is inside the capture callback, the one step of
\* the loop whose duration is not bounded.
StopJoinTimeout ==
    /\ ctl = "stop_join"
    /\ tpc[thread] = "capturing"
    /\ ctl' = "idle"
    /\ UNCHANGED <<is_running, stop_event, thread, auto_capture,
                   capture_interval, night_only, weather_check, tpc, twait,
                   notified, sawSignal, startRet, nstart, nthreads>>

\* The loop condition tested after the body instead of before it: a thread
\* that reads the cancellation still runs one more iteration.
LoopCheck_OneMoreIteration(t) ==
    /\ tpc[t] = "check"
    /\ IF sawSignal[t]
       THEN /\ tpc' = [tpc EXCEPT ![t] = "dead"]
            /\ UNCHANGED sawSignal
       ELSE /\ tpc' = [tpc EXCEPT ![t] = "gate"]
            /\ sawSignal' = [sawSignal EXCEPT ![t] = ~(is_running /\ ~stop_event)]
    /\ UNCHANGED <<is_running, stop_event, thread, auto_capture,
                   capture_interval, night_only, weather_check, twait,
                   notified, ctl, startRet, nstart, nthreads>>

\* _capture_loop: the loop condition
LoopCheck(t) ==
    /\ tpc[t] = "check"
    /\ IF is_running /\ ~stop_event
       THEN /\ tpc' = [tpc EXCEPT ![t] = "gate"]
            /\ UNCHANGED sawSignal
       ELSE /\ tpc' = [tpc EXCEPT ![t] = "dead"]
            /\ sawSignal' = [sawSignal EXCEPT ![t] = TRUE]
    /\ UNCHANGED <<is_running, stop_event, thread, auto_capture,
                   capture_interval, night_only, weather_check, twait,
                   notified, ctl, startRet, nstart, nthreads>>

\* _capture_loop: _should_capture(); the callback is entered when it
\* approves, else the loop goes to stop_event.wait(capture_interval)
LoopGate(t) ==
    /\ tpc[t] = "gate"
    /\ \E hour \in Hours :
          IF ShouldCapture(hour)
          THEN /\ tpc' = [tpc EXCEPT ![t] = "capturing"]
               /\ UNCHANGED twait
          ELSE /\ tpc' = [tpc EXCEPT ![t] = "wait"]
               /\ twait' = [twait EXCEPT ![t] = capture_interval]
    /\ UNCHANGED <<is_running, stop_event, thread, auto_capture,
                   capture_interval, night_only, weather_check, notified,
                   sawSignal, ctl, startRet, nstart, nthreads>>

\* _capture_loop: capture_callback() returns; stop_event.wait(capture_interval)
CaptureReturn(t) ==
    /\ tpc[t] = "capturing"
    /\ tpc' = [tpc EXCEPT ![t] = "wait"]
    /\ twait' = [twait EXCEPT ![t] = capture_interval]
    /\ UNCHANGED <<is_running, stop_event, thread, auto_capture,
                   capture_interval, night_only, weather_check, notified,
                   sawSignal, ctl, startRet, nstart, nthreads>>

\* The callback's exception not caught: it ends the thread.
CaptureRaise_Uncaught(t) ==
    /\ tpc[t] = "capturing"
    /\ tpc' = [tpc EXCEPT ![t] = "dead"]
    /\ UNCHANGED <<is_running, stop_event, thread, auto_capture,
                   capture_interval, night_only, weather_check, twait,
                   notified, sawSignal, ctl, startRet, nstart, nthreads>>

\* _capture_loop: capture_callback() raises; the except branch waits
\* min(capture_interval, 60)
CaptureRaise(t) ==
    /\ tpc[t] = "capturing"
    /\ tpc' = [tpc EXCEPT ![t] = "errwait"]
    /\ twait' = [twait EXCEPT ![t] = Min(capture_interval, ErrorWaitCap)]
    /\ UNCHANGED <<is_running, stop_event, thread, auto_capture,
                   capture_interval, night_only, weather_check, notified,
                   sawSignal, ctl, startRet, nstart, nthreads>>

\* time.sleep(timeout) in place of stop_event.wait(timeout): the flag never
\* ends the wait.
WaitWake_Sleep(t) ==
    /\ tpc[t] \in WaitPcs
    /\ FALSE
    /\ UNCHANGED schedVars

\* stop_event.wait(timeout) returns because the flag is set, or was set
\* while the thread waited
WaitWake(t) ==
    /\ tpc[t] \in WaitPcs
    /\ stop_event \/ t \in notified
    /\ tpc' = [tpc EXCEPT ![t] = "check"]
    /\ twait' = [twait EXCEPT ![t] = 0]
    /\ notified' = notified \ {t}
    /\ UNCHANGED <<is_running, stop_event, thread, auto_capture,
                   capture_interval, night_only, weather_check, sawSignal,
                   ctl, startRet, nstart, nthreads>>

\* stop_event.wait(timeout) returns because the timeout has elapsed
WaitTimeout(t) ==
    /\ tpc[t] \in WaitPcs
    /\ tpc' = [tpc EXCEPT ![t] = "check"]
    /\ twait' = [twait EXCEPT ![t] = 0]
    /\ notified' = notified \ {t}
    /\ UNCHANGED <<is_running, stop_event, thread, auto_capture,
                   capture_interval, night_only, weather_check, sawSignal,
                   ctl, startRet, nstart, nthreads>>

LoopStep(t) ==
    \/ LoopCheck(t)
    \/ LoopGate(t)
    \/ CaptureReturn(t)
    \/ CaptureRaise(t)
    \/ WaitWake(t)


\* ScheduledCapture.__init__ without a config_manager: the defaults
SchedDefault ==
    /\ SchedFields
    /\ auto_capture = FALSE
    /\ capture_interval = 60
    /\ night_only = FALSE
    /\ weather_check = FALSE

(***************************************************************************)
(* WeatherManager: the weather cache                                       *)
(***************************************************************************)
\* Threads calling get_weather_data at the same time (HTTP handlers, the
\* capture callback).
MaxCallers == 2

\* The cache's time to live, in ticks of the model's clock
\* (weather.cache_duration).
CacheDuration == 2

\* The clock stops at MaxTime.
MaxTime == 4

\* Calls of the provider in one behaviour.
MaxFetches == 3

Callers == 1..MaxCallers

\* Latitudes asked for, in units of 0.00001 degree (the longitude is fixed).
\* 12 and 14 round to the same 4-decimal key, 27 to another.
Locs == {12, 14, 27}

VARIABLES
    cache,        \* self.cache: a dict, as its items in insertion order
    last_update,  \* self.last_update: 0 for None
    now,          \* time.time()
    wpc,          \* position of each caller in get_weather_data
    wloc,         \* the latitude each caller in flight asked for
    wser,         \* the number of the provider call each caller is in
    wres,         \* what the last get_weather_data call to return returned
    nfetch        \* calls of the provider so far

wxVars == <<cache, last_update, now, wpc, wloc, wser, wres, nfetch>>

\* f"{lat:.4f},{lon:.4f}": the coordinates rounded to 4 decimals
CacheKey(loc) == (loc + 5) \div 10

NoResult == [kind |-> "none", caller |-> 0]

\* WeatherManager.__init__
WeatherInit ==
    /\ cache = <<>>
    /\ last_update = 0
    /\ now = 1
    /\ wpc = [c \in Callers |-> "idle"]
    /\ wloc = [c \in Callers |-> 0]
    /\ wser = [c \in Callers |-> 0]
    /\ wres = NoResult
    /\ nfetch = 0

\* cache_key in self.cache
HasKey(d, k) == \E i \in 1..Len(d) : d[i].key = k

\* self.cache[cache_key]
Lookup(d, k) == d[CHOOSE i \in 1..Len(d) : d[i].key = k].val

\* self.cache[cache_key] = weather_data: a key already present keeps its
\* place in the dict's order
Put(d, k, v) ==
    IF HasKey(d, k)
    THEN [i \in 1..Len(d) |-> IF d[i].key = k THEN [key |-> k, val |-> v] ELSE d[i]]
    ELSE Append(d, [key |-> k, val |-> v])

\* WeatherManager._is_cache_valid
IsCacheValid ==
    IF last_update = 0 \/ cache = <<>>
    THEN FALSE
    ELSE now - last_update < CacheDuration

\* WeatherManager._get_default_weather_data
DefaultWeatherData ==
    [cond |-> "N/A", provider |-> "default", loc |-> 0, serial |-> 0,
     update_time |-> now]

\* list(self.cache.values())[-1]
LastCached(d) == d[Len(d)].val

\* The except branch of get_weather_data: what is returned when the fetch
\* has failed
FailureResult(c, k) ==
    IF cache # <<>>
    THEN [kind |-> "stale", caller |-> c, key |-> k, at |-> now, hadKey |-> HasKey(cache, k),
          val |-> LastCached(cache)]
    ELSE [kind |-> "default", caller |-> c, key |-> k, at |-> now, hadKey |-> FALSE,
          val |-> DefaultWeatherData]

\* get_weather_data up to the provider call: a valid cache holding the key
\* is answered from the cache, else the provider is called
GetBegin(c, loc) ==
    /\ wpc[c] = "idle"
    /\ IF IsCacheValid /\ HasKey(cache, CacheKey(loc))
       THEN /\ wres' = [kind |-> "hit", caller |-> c, key |-> CacheKey(loc),
                      at |-> now, hadKey |-> TRUE,
                      val |-> Lookup(cache, CacheKey(loc))]
            /\ UNCHANGED <<wpc, wloc, wser, nfetch>>
       ELSE /\ nfetch < MaxFetches
            /\ nfetch' = nfetch + 1
            /\ wpc' = [wpc EXCEPT ![c] = "fetching"]
            /\ wloc' = [wloc EXCEPT ![c] = loc]
            /\ wser' = [wser EXCEPT ![c] = nfetch + 1]
            /\ UNCHANGED wres
    /\ UNCHANGED <<cache, last_update, now>>

\* get_weather_data: the provider returns; the data get their _metadata, are
\* stored under the key and returned
FetchOk(c) ==
    /\ wpc[c] = "fetching"
    /\ LET k == CacheKey(wloc[c])
           v == [cond |-> "data", provider |-> "mock", loc |-> wloc[c],
                 serial |-> wser[c], update_time |-> now]
       IN /\ cache' = Put(cache, k, v)
          /\ last_update' = now
          /\ wres' = [kind |-> "fetched", caller |-> c, key |-> k, at |-> now,
                      hadKey |-> HasKey(cache, k), val |-> v]
    /\ wpc' = [wpc EXCEPT ![c] = "idle"]
    /\ wloc' = [wloc EXCEPT ![c] = 0]
    /\ wser' = [wser EXCEPT ![c] = 0]
    /\ UNCHANGED <<now, nfetch>>

\* The provider's exception leaving get_weather_data.
FetchFail_Propagates(c) ==
    /\ wpc[c] = "fetching"
    /\ wres' = [kind |-> "raised", caller |-> c, key |-> CacheKey(wloc[c]),
                at |-> now, hadKey |-> HasKey(cache, CacheKey(wloc[c])),
                val |-> DefaultWeatherData]
    /\ wpc' = [wpc EXCEPT ![c] = "idle"]
    /\ wloc' = [wloc EXCEPT ![c] = 0]
    /\ wser' = [wser EXCEPT ![c] = 0]
    /\ UNCHANGED <<cache, last_update, now, nfetch>>

\* get_weather_data: the provider raises; the except branch returns the
\* last cached data, or the default data when nothing is cached
FetchFail(c) ==
    /\ wpc[c] = "fetching"
    /\ wres' = FailureResult(c, CacheKey(wloc[c]))
    /\ wpc' = [wpc EXCEPT ![c] = "idle"]
    /\ wloc' = [wloc EXCEPT ![c] = 0]
    /\ wser' = [wser EXCEPT ![c] = 0]
    /\ UNCHANGED <<cache, last_update, now, nfetch>>

\* time passes
Tick ==
    /\ now < MaxTime
    /\ now' = now + 1
    /\ UNCHANGED <<cache, last_update, wpc, wloc, wser, wres, nfetch>>


(***************************************************************************)
(* StorageManager: the retention sweep                                     *)
(***************************************************************************)
\* Image paths under base_path.  A path is YYYY/MM/DD/allsky_<capture
\* time>.jpg, so paths are ordered as the capture times they are made of:
\* path p holds the image captured at second p.
MaxPaths == 3

\* File modification times are 1..MaxMtime.
MaxMtime == 2

\* The largest configured ceiling image.max_stored_images
MaxStored == 1

Paths == 1..MaxPaths

VARIABLES
    disk,             \* the *.jpg files under base_path: path -> mtime, 0 if absent
    archive,          \* the paths present under archive_path
    archive_enabled,  \* self.archive_enabled (configuration, fixed)
    max_stored_images,\* self.max_stored_images (configuration, fixed)
    sweep             \* the last cleanup_old_files call: what it saw (the
                      \* listing it sorted, if it came to sort, and the
                      \* archive as it was) and did

retVars == <<disk, archive, archive_enabled, max_stored_images, sweep>>

OnDisk(d) == {p \in Paths : d[p] # 0}

NoSweep ==
    [done |-> FALSE, mt |-> [p \in Paths |-> 0], listing |-> <<>>,
     old |-> <<>>, failed |-> {}, was |-> {},
     ret |-> [deleted |-> 0, archived |-> 0, total |-> 0]]

\* A base directory holding any images, as left by earlier runs
RetentionInit ==
    /\ disk \in [Paths -> 0..MaxMtime]
    /\ archive = {}
    /\ archive_enabled \in BOOLEAN
    /\ max_stored_images \in 0..MaxStored
    /\ sweep = NoSweep

\* A fresh installation: no image yet
RetentionEmpty ==
    /\ disk = [p \in Paths |-> 0]
    /\ archive = {}
    /\ archive_enabled = TRUE
    /\ max_stored_images = MaxStored
    /\ sweep = NoSweep

\* A fresh installation under any configuration
RetentionFresh ==
    /\ disk = [p \in Paths |-> 0]
    /\ archive = {}
    /\ archive_enabled \in BOOLEAN
    /\ max_stored_images \in 0..MaxStored
    /\ sweep = NoSweep

RECURSIVE Orderings(_)
Orderings(S) ==
    IF S = {} THEN {<<>>}
    ELSE UNION {{<<x>> \o l : l \in Orderings(S \ {x})} : x \in S}

\* glob.glob(pattern, recursive=True): the files in the order the directory
\* scan yields them, which is any order
Listings(d) == Orderings(OnDisk(d))

\* list.sort(key=os.path.getmtime): one element put in its place in a sorted
\* list, after the elements whose key is not greater (the sort is stable)
RECURSIVE InsertByMtime(_, _, _)
InsertByMtime(sorted, p, d) ==
    IF sorted = <<>> THEN <<p>>
    ELSE IF d[Head(sorted)] <= d[p]
         THEN <<Head(sorted)>> \o InsertByMtime(Tail(sorted), p, d)
         ELSE <<p>> \o sorted

RECURSIVE SortByMtime(_, _)
SortByMtime(l, d) ==
    IF l = <<>> THEN <<>>
    ELSE InsertByMtime(SortByMtime(SubSeq(l, 1, Len(l) - 1), d), l[Len(l)], d)

\* The sort with reverse=True: the newest files come first.
RECURSIVE InsertByMtimeDesc(_, _, _)
InsertByMtimeDesc(sorted, p, d) ==
    IF sorted = <<>> THEN <<p>>
    ELSE IF d[Head(sorted)] >= d[p]
         THEN <<Head(sorted)>> \o InsertByMtimeDesc(Tail(sorted), p, d)
         ELSE <<p>> \o sorted

RECURSIVE SortByMtimeDesc(_, _)
SortByMtimeDesc(l, d) ==
    IF l = <<>> THEN <<>>
    ELSE InsertByMtimeDesc(SortByMtimeDesc(SubSeq(l, 1, Len(l) - 1), d),
                           l[Len(l)], d)

OldFiles_NewestFirst(all_files, d) ==
    IF Len(all_files) <= max_stored_images
    THEN <<>>
    ELSE SubSeq(SortByMtimeDesc(all_files, d), 1,
                Len(all_files) - max_stored_images)

\* cleanup_old_files: old_files, the files the sweep removes
OldFiles(all_files, d) ==
    IF Len(all_files) <= max_stored_images
    THEN <<>>
    ELSE SubSeq(SortByMtime(all_files, d), 1,
                Len(all_files) - max_stored_images)

Range(f) == {f[i] : i \in DOMAIN f}

\* The files of old_files before the first one whose move or removal fails
RECURSIVE UntilFirstFailure(_, _)
UntilFirstFailure(old, failed) ==
    IF old = <<>> \/ Head(old) \in failed THEN {}
    ELSE {Head(old)} \cup UntilFirstFailure(Tail(old), failed)

\* The sweep with its loop left at the first file that fails.
SweepResult_AbortsOnFailure(d, a, all_files, failed) ==
    LET old == OldFiles(all_files, d)
        gone == UntilFirstFailure(old, failed)
    IN [disk |-> [p \in Paths |-> IF p \in gone THEN 0 ELSE d[p]],
        archive |-> IF archive_enabled THEN a \cup gone ELSE a,
        sweep |-> [done |-> TRUE, mt |-> d,
                   listing |-> IF old = <<>> THEN <<>> ELSE all_files,
                   old |-> old, failed |-> failed, was |-> a,
                   ret |-> [deleted |-> IF archive_enabled THEN 0
                                        ELSE Cardinality(gone),
                            archived |-> IF archive_enabled THEN Len(old)
                                         ELSE 0,
                            total |-> Len(all_files)]]]

\* The sweep that removes the files whatever image.archive_enabled says.
SweepResult_NeverArchives(d, a, all_files, failed) ==
    LET old == OldFiles(all_files, d)
        gone == Range(old) \ failed
    IN [disk |-> [p \in Paths |-> IF p \in gone THEN 0 ELSE d[p]],
        archive |-> a,
        sweep |-> [done |-> TRUE, mt |-> d,
                   listing |-> IF old = <<>> THEN <<>> ELSE all_files,
                   old |-> old, failed |-> failed, was |-> a,
                   ret |-> [deleted |-> IF archive_enabled THEN 0
                                        ELSE Cardinality(gone),
                            archived |-> IF archive_enabled THEN Len(old)
                                         ELSE 0,
                            total |-> Len(all_files)]]]

\* StorageManager.cleanup_old_files over the directory d and the archive a:
\* the directory and the archive it leaves and what it returns.  `failed`
\* are the files whose move or removal raises; the loop goes on to the next
\* file.
SweepResult(d, a, all_files, failed) ==
    LET old == OldFiles(all_files, d)
        gone == Range(old) \ failed
    IN [disk |-> [p \in Paths |-> IF p \in gone THEN 0 ELSE d[p]],
        archive |-> IF archive_enabled THEN a \cup gone ELSE a,
        sweep |-> [done |-> TRUE, mt |-> d,
                   listing |-> IF old = <<>> THEN <<>> ELSE all_files,
                   old |-> old, failed |-> failed, was |-> a,
                   ret |-> [deleted |-> IF archive_enabled THEN 0
                                        ELSE Cardinality(gone),
                            archived |-> IF archive_enabled THEN Len(old)
                                         ELSE 0,
                            total |-> Len(all_files)]]]

\* StorageManager.cleanup_old_files: the whole call.
Cleanup(all_files, failed) ==
    LET r == SweepResult(disk, archive, all_files, failed)
    IN /\ failed \subseteq Range(OldFiles(all_files, disk))
       /\ disk' = r.disk
       /\ archive' = r.archive
       /\ sweep' = r.sweep
       /\ UNCHANGED <<archive_enabled, max_stored_images>>

(***************************************************************************)
(* ImageManager: saving images, the metadata index and its reload.  The    *)
(* operations are called one at a time here.                               *)
(***************************************************************************)
\* ImageManager operations in one behaviour
MaxOps == 2

\* Capture instants that have passed the 30-day horizon, at most
MaxHorizon == 1

\* Capture instants: two per second, so two per file name
CaptureTimes == 1..(MaxPaths + 1)

VARIABLES
    metadata_cache,   \* self.metadata_cache: path -> capture time of its
                      \* record, 0 if it has none
    metadata_file,    \* metadata.json: missing, unreadable or path -> record
    horizon,          \* capture instants <= horizon are older than 30 days
    nops,             \* operations called so far
    img,              \* the last operation and what it returned
    query             \* the last get_images call and the list it returned

imgVars == <<metadata_cache, metadata_file, horizon, nops, img, query>>

\* StorageManager.generate_filename / get_full_path: the path is made of the
\* capture time cut to whole seconds
PathOf(ct) == (ct + 1) \div 2

NoRecords == [p \in Paths |-> 0]

NoIndex == [state |-> "missing", recs |-> NoRecords]

NoQuery == [done |-> FALSE, start |-> 0, end |-> 0, limit |-> 0, ret |-> <<>>]

ImageInit ==
    /\ query = NoQuery
    /\ metadata_cache = NoRecords
    /\ metadata_file = NoIndex
    /\ horizon = 0
    /\ nops = 0
    /\ img = [op |-> "none", path |-> 0, ret |-> "none"]

\* The records an index file can hold: each path with the record of an
\* image saved under it
RecordSets ==
    {r \in [Paths -> {0} \cup CaptureTimes] :
        \A p \in Paths : r[p] # 0 => PathOf(r[p]) = p}

\* What a new process can find as metadata.json: nothing, a file it cannot
\* parse, or the index an earlier process wrote
PersistedIndexes ==
    {NoIndex, [state |-> "unreadable", recs |-> NoRecords]}
        \cup {[state |-> "ok", recs |-> r] : r \in RecordSets}

\* A new process over what an earlier one left: any index file, and any of
\* the image files still there
LoadInit ==
    /\ query = NoQuery
    /\ metadata_cache = NoRecords
    /\ metadata_file \in PersistedIndexes
    /\ horizon = 0
    /\ nops = 0
    /\ img = [op |-> "none", path |-> 0, ret |-> "none"]
    /\ disk \in [Paths -> {0, 1}]
    /\ archive = {}
    /\ archive_enabled = TRUE
    /\ max_stored_images = MaxStored
    /\ sweep = NoSweep

\* metadata.capture_time > datetime.now() - timedelta(days=30)
Recent(ct) == ct > horizon

\* The rewrite that persists the records of files that are gone as well.
SaveMetadata_NoExistsCheck(mc, d) ==
    [state |-> "ok",
     recs |-> [p \in Paths |->
                 IF mc[p] # 0 /\ Recent(mc[p]) THEN mc[p] ELSE 0]]

\* ImageManager._save_metadata: the index file it writes
SaveMetadata(mc, d) ==
    [state |-> "ok",
     recs |-> [p \in Paths |->
                 IF mc[p] # 0 /\ Recent(mc[p]) /\ d[p] # 0 THEN mc[p] ELSE 0]]

\* The load that keeps every persisted record, also of a file that is gone.
LoadMetadata_NoExistsCheck(mc, file, d) ==
    IF file.state = "missing" THEN mc
    ELSE IF file.state = "unreadable" THEN NoRecords
    ELSE file.recs

\* ImageManager._load_metadata: the mc it leaves
LoadMetadata(mc, file, d) ==
    IF file.state = "missing" THEN mc
    ELSE IF file.state = "unreadable" THEN NoRecords
    ELSE [p \in Paths |-> IF d[p] # 0 THEN file.recs[p] ELSE 0]

Op(name, p, r) ==
    /\ UNCHANGED query
    /\ nops < MaxOps
    /\ nops' = nops + 1
    /\ img' = [op |-> name, path |-> p, ret |-> r]

\* The save without the retention sweep.
SaveImage_NoSweep(ct, mt, all_files, failed) ==
    LET p == PathOf(ct)
        d1 == [disk EXCEPT ![p] = mt]
        cache1 == [metadata_cache EXCEPT ![p] = ct]
    IN /\ metadata_cache' = cache1
       /\ metadata_file' = SaveMetadata(cache1, d1)
       /\ disk' = d1
       /\ Op("save", p, "path")
       /\ UNCHANGED <<archive, sweep, archive_enabled, max_stored_images,
                      horizon>>

\* ImageManager.save_image, the image written: the file, the record, the
\* index rewrite and the retention sweep.  mt is the modification time of
\* the new file (now, or the source file's when the image is copied).
SaveImage(ct, mt, all_files, failed) ==
    LET p == PathOf(ct)
        d1 == [disk EXCEPT ![p] = mt]
        cache1 == [metadata_cache EXCEPT ![p] = ct]
        r == SweepResult(d1, archive, all_files, failed)
    IN /\ metadata_cache' = cache1
       /\ metadata_file' = SaveMetadata(cache1, d1)
       /\ disk' = r.disk
       /\ archive' = r.archive
       /\ sweep' = r.sweep
       /\ Op("save", p, "path")
       /\ UNCHANGED <<archive_enabled, max_stored_images, horizon>>

\* ImageManager.save_image, the image not written (imwrite returns False or
\* the copy raises): None is returned
SaveImageFails(ct) ==
    /\ Op("save_failed", PathOf(ct), "None")
    /\ UNCHANGED <<retVars, metadata_cache, metadata_file, horizon>>

\* ImageManager.delete_image, the file removed or already absent
DeleteImage(p) ==
    LET d1 == [disk EXCEPT ![p] = 0]
        cache1 == [metadata_cache EXCEPT ![p] = 0]
    IN /\ disk' = d1
       /\ metadata_cache' = cache1
       /\ metadata_file' = IF metadata_cache[p] # 0
                           THEN SaveMetadata(cache1, d1)
                           ELSE metadata_file
       /\ Op("delete", p, "True")
       /\ UNCHANGED <<archive, archive_enabled, max_stored_images, sweep,
                      horizon>>

\* ImageManager.delete_image, os.remove raising: False is returned
DeleteImageFails(p) ==
    /\ disk[p] # 0
    /\ Op("delete_failed", p, "False")
    /\ UNCHANGED <<retVars, metadata_cache, metadata_file, horizon>>

\* ImageManager.cleanup: the index is rewritten
ManagerCleanup ==
    /\ metadata_file' = SaveMetadata(metadata_cache, disk)
    /\ Op("cleanup", 0, "None")
    /\ UNCHANGED <<retVars, metadata_cache, horizon>>

\* ImageManager.__init__ of a new process: an empty cache, then
\* _load_metadata
Restart ==
    /\ metadata_cache' = LoadMetadata(NoRecords, metadata_file, disk)
    /\ Op("load", 0, "None")
    /\ UNCHANGED <<retVars, metadata_file, horizon>>

\* An ImageManager some time into its run: any records in the cache, any of
\* the image files still there
QueryInit ==
    /\ query = NoQuery
    /\ metadata_cache \in RecordSets
    /\ metadata_file = NoIndex
    /\ horizon = 0
    /\ nops = 0
    /\ img = [op |-> "none", path |-> 0, ret |-> "none"]
    /\ disk \in [Paths -> {0, 1}]
    /\ archive = {}
    /\ archive_enabled = TRUE
    /\ max_stored_images = MaxStored
    /\ sweep = NoSweep

\* start_date and end_date of get_images: 0 for None, else an instant
QueryTimes == 0..(MaxPaths + 2)

\* limit of get_images: a count
Limits == 0..MaxPaths

\* datetime.isoformat of a capture instant: the date and time to the second,
\* followed by the microseconds unless they are zero.  The fields have
\* fixed widths, so a field is one symbol here.
IsoFormat(ct) ==
    IF ct % 2 = 1 THEN <<(ct + 1) \div 2>> ELSE <<(ct + 1) \div 2, 5>>

\* a < b for strings
RECURSIVE StrLess(_, _)
StrLess(a, b) ==
    IF b = <<>> THEN FALSE
    ELSE IF a = <<>> THEN TRUE
    ELSE IF Head(a) # Head(b) THEN Head(a) < Head(b)
    ELSE StrLess(Tail(a), Tail(b))

\* The loop of get_images over metadata_cache.items(): the records that
\* pass the date filter and whose file exists, in the order of the items
RECURSIVE Collect(_, _, _, _, _)
Collect(items, mc, d, start, end) ==
    IF items = <<>> THEN <<>>
    ELSE LET p == Head(items)
             rest == Collect(Tail(items), mc, d, start, end)
         IN IF start # 0 /\ mc[p] < start THEN rest
            ELSE IF end # 0 /\ mc[p] > end THEN rest
            ELSE IF d[p] # 0
                 THEN <<[image_path |-> p,
                         capture_time |-> IsoFormat(mc[p])]>> \o rest
                 ELSE rest

\* images.sort(key=capture_time): ascending, stable.
RECURSIVE InsertOldestFirst(_, _)
InsertOldestFirst(sorted, x) ==
    IF sorted = <<>> THEN <<x>>
    ELSE IF StrLess(x.capture_time, Head(sorted).capture_time)
         THEN <<x>> \o sorted
         ELSE <<Head(sorted)>> \o InsertOldestFirst(Tail(sorted), x)

RECURSIVE SortNewestFirst_Ascending(_)
SortNewestFirst_Ascending(l) ==
    IF l = <<>> THEN <<>>
    ELSE InsertOldestFirst(SortNewestFirst_Ascending(SubSeq(l, 1, Len(l) - 1)),
                           l[Len(l)])

\* images.sort(key=capture_time, reverse=True): one element put in its
\* place, after the elements whose key is not less (the sort is stable)
RECURSIVE InsertNewestFirst(_, _)
InsertNewestFirst(sorted, x) ==
    IF sorted = <<>> THEN <<x>>
    ELSE IF StrLess(Head(sorted).capture_time, x.capture_time)
         THEN <<x>> \o sorted
         ELSE <<Head(sorted)>> \o InsertNewestFirst(Tail(sorted), x)

RECURSIVE SortNewestFirst(_)
SortNewestFirst(l) ==
    IF l = <<>> THEN <<>>
    ELSE InsertNewestFirst(SortNewestFirst(SubSeq(l, 1, Len(l) - 1)),
                           l[Len(l)])

\* images[:limit]
Take(l, limit) == SubSeq(l, 1, Min(limit, Len(l)))

\* ImageManager.get_images / get_latest_images; items is the order in which
\* the cache yields its entries.  The call changes nothing, so one call is
\* followed from each state of the cache and the directory.
GetImages(items, start, end, limit) ==
    /\ ~query.done
    /\ query' = [done |-> TRUE, start |-> start, end |-> end, limit |-> limit,
                 ret |-> Take(SortNewestFirst(
                             Collect(items, metadata_cache, disk, start, end)),
                             limit)]
    /\ UNCHANGED <<retVars, metadata_cache, metadata_file, horizon, nops, img>>

\* Time passes: one more capture instant is older than 30 days
AgeOut ==
    /\ horizon < MaxHorizon
    /\ horizon' = horizon + 1
    /\ Op("aged", 0, "none")
    /\ UNCHANGED <<retVars, metadata_cache, metadata_file>>

(***************************************************************************)
(* ImageManager called by several threads: the scheduler thread and the    *)
(* request threads save images through the capture callback, which holds   *)
(* camera_lock; delete_image and cleanup are called without any lock.      *)
(* _save_metadata is entered (the records filtered, the file opened for    *)
(* writing) and left (the dump written) in two steps.                      *)
(***************************************************************************)
\* Threads that call ImageManager
MaxWriters == 2

Writers == 1..MaxWriters

VARIABLES
    camera_lock,      \* camera_lock: 0 when free, else the thread holding it
    ipc,              \* where each thread is: "idle" or "rewriting"
    iop,              \* the operation a thread is in
    isnap,            \* recent_metadata of a thread inside _save_metadata
    imixed            \* threads whose rewrite ran while another one's did

idxVars == <<camera_lock, ipc, iop, isnap, imixed>>

IndexIdle ==
    /\ camera_lock = 0
    /\ ipc = [w \in Writers |-> "idle"]
    /\ iop = [w \in Writers |-> "none"]
    /\ isnap = [w \in Writers |-> NoRecords]
    /\ imixed = {}

Rewriting == {w \in Writers : ipc[w] = "rewriting"}

\* A thread enters _save_metadata: recent_metadata is built and the file is
\* opened for writing, which empties it
EnterRewrite(w, name, mc, d) ==
    /\ ipc' = [ipc EXCEPT ![w] = "rewriting"]
    /\ iop' = [iop EXCEPT ![w] = name]
    /\ isnap' = [isnap EXCEPT ![w] = SaveMetadata(mc, d).recs]
    /\ imixed' = IF Rewriting = {} THEN imixed ELSE imixed \cup Rewriting \cup {w}
    /\ metadata_file' = [state |-> "unreadable", recs |-> NoRecords]

\* A thread leaves _save_metadata: its dump is in the file, mixed with
\* another thread's when both wrote the file at once
LeaveRewrite(w) ==
    /\ ipc' = [ipc EXCEPT ![w] = "idle"]
    /\ iop' = [iop EXCEPT ![w] = "none"]
    /\ isnap' = [isnap EXCEPT ![w] = NoRecords]
    /\ imixed' = imixed \ {w}
    /\ metadata_file' \in
          {[state |-> "ok", recs |-> isnap[w]]} \cup
          (IF w \in imixed
           THEN {[state |-> "mixed", recs |-> NoRecords]} ELSE {})

\* save_image called by the capture callback under camera_lock: the file
\* and the record are written and _save_metadata is entered
SaveStart(w, ct, mt) ==
    LET p == PathOf(ct)
        d1 == [disk EXCEPT ![p] = mt]
        cache1 == [metadata_cache EXCEPT ![p] = ct]
    IN /\ ipc[w] = "idle"
       /\ camera_lock = 0
       /\ camera_lock' = w
       /\ disk' = d1
       /\ metadata_cache' = cache1
       /\ EnterRewrite(w, "save", cache1, d1)
       /\ Op("save_started", p, "none")
       /\ UNCHANGED <<archive, archive_enabled, max_stored_images, sweep,
                      horizon>>

\* save_image: _save_metadata is left, the sweep runs, the path is returned
\* and the callback releases camera_lock
SaveFinish(w, all_files, failed) ==
    LET r == SweepResult(disk, archive, all_files, failed)
    IN /\ ipc[w] = "rewriting"
       /\ iop[w] = "save"
       /\ LeaveRewrite(w)
       /\ camera_lock' = 0
       /\ disk' = r.disk
       /\ archive' = r.archive
       /\ sweep' = r.sweep
       /\ img' = [op |-> "save", path |-> img.path, ret |-> "path"]
       /\ UNCHANGED <<archive_enabled, max_stored_images, metadata_cache,
                      horizon, nops, query>>

\* delete_image: the file is removed; with a record in the cache, the record
\* is dropped and _save_metadata is entered, else True is returned
DeleteStart(w, p) ==
    LET d1 == [disk EXCEPT ![p] = 0]
        cache1 == [metadata_cache EXCEPT ![p] = 0]
    IN /\ ipc[w] = "idle"
       /\ disk' = d1
       /\ metadata_cache' = cache1
       /\ IF metadata_cache[p] # 0
          THEN EnterRewrite(w, "delete", cache1, d1)
          ELSE UNCHANGED <<ipc, iop, isnap, imixed, metadata_file>>
       /\ Op("delete", p, "True")
       /\ UNCHANGED <<archive, archive_enabled, max_stored_images, sweep,
                      horizon, camera_lock>>

\* ImageManager.cleanup: _save_metadata is entered
CleanupStart(w) ==
    /\ ipc[w] = "idle"
    /\ EnterRewrite(w, "cleanup", metadata_cache, disk)
    /\ Op("cleanup", 0, "None")
    /\ UNCHANGED <<retVars, metadata_cache, horizon, camera_lock>>

\* delete_image or cleanup: _save_metadata is left and the call returns
RewriteFinish(w) ==
    /\ ipc[w] = "rewriting"
    /\ iop[w] \in {"delete", "cleanup"}
    /\ LeaveRewrite(w)
    /\ UNCHANGED <<retVars, metadata_cache, horizon, nops, img, query,
                   camera_lock>>

(***************************************************************************)
(* exceptions.retry_on_failure: one call of a decorated function           *)
(***************************************************************************)
\* The largest max_retries
MaxRetries == 3

\* delay, in units of half a second
Delays == {1, 3}

VARIABLES
    max_retries,          \* the decorator's max_retries
    delay,                \* the decorator's delay
    exponential_backoff,  \* the decorator's exponential_backoff
    attempt,              \* the loop variable
    last_exception,       \* last_exception: 0 for None, else the number of
                          \* the invocation that raised it
    rpc,                  \* "calling", "sleeping", "returned" or "raised"
    outcomes,             \* what each invocation of func did, in order
    slept,                \* the arguments of time.sleep, in order
    rret                  \* the value returned, or the exception raised

retryVars ==
    <<max_retries, delay, exponential_backoff, attempt, last_exception, rpc,
      outcomes, slept, rret>>

\* The wrapper is entered: any decorator arguments, the loop at attempt 0
RetryInit ==
    /\ max_retries \in 0..MaxRetries
    /\ delay \in Delays
    /\ exponential_backoff \in BOOLEAN
    /\ attempt = 0
    /\ last_exception = 0
    /\ rpc = "calling"
    /\ outcomes = <<>>
    /\ slept = <<>>
    /\ rret = 0

\* No decorated function is being called
RetryIdle ==
    /\ max_retries = 0
    /\ delay = 1
    /\ exponential_backoff = TRUE
    /\ attempt = 0
    /\ last_exception = 0
    /\ rpc = "returned"
    /\ outcomes = <<>>
    /\ slept = <<>>
    /\ rret = 0

\* The wait that doubles once too often.
WaitTime_OneAhead(d, e, a) == IF e THEN d * (2 ^ (a + 1)) ELSE d

\* wait_time = delay * (2 ** attempt) if exponential_backoff else delay
WaitTime(d, e, a) == IF e THEN d * (2 ^ a) ELSE d

\* func returns: the wrapper returns its value (the invocation's number
\* stands for the value)
AttemptReturns ==
    /\ rpc = "calling"
    /\ outcomes' = Append(outcomes, "returned")
    /\ rret' = Len(outcomes) + 1
    /\ rpc' = "returned"
    /\ UNCHANGED <<max_retries, delay, exponential_backoff, attempt,
                   last_exception, slept>>

\* The wrapper that keeps the first exception it caught.
AttemptRaises_KeepsFirst ==
    LET e == IF last_exception = 0 THEN Len(outcomes) + 1 ELSE last_exception
    IN /\ rpc = "calling"
       /\ outcomes' = Append(outcomes, "raised")
       /\ last_exception' = e
       /\ IF attempt < max_retries
          THEN /\ slept' = Append(slept, WaitTime(delay, exponential_backoff,
                                                  attempt))
               /\ rpc' = "sleeping"
               /\ UNCHANGED rret
          ELSE /\ rpc' = "raised"
               /\ rret' = e
               /\ UNCHANGED slept
       /\ UNCHANGED <<max_retries, delay, exponential_backoff, attempt>>

\* func raises: the exception is kept; before the last attempt the wrapper
\* goes to sleep, after it the loop ends and last_exception is raised
AttemptRaises ==
    LET e == Len(outcomes) + 1
    IN /\ rpc = "calling"
       /\ outcomes' = Append(outcomes, "raised")
       /\ last_exception' = e
       /\ IF attempt < max_retries
          THEN /\ slept' = Append(slept, WaitTime(delay, exponential_backoff,
                                                  attempt))
               /\ rpc' = "sleeping"
               /\ UNCHANGED rret
          ELSE /\ rpc' = "raised"
               /\ rret' = e
               /\ UNCHANGED slept
       /\ UNCHANGED <<max_retries, delay, exponential_backoff, attempt>>

\* time.sleep returns: the next attempt
SleepDone ==
    /\ rpc = "sleeping"
    /\ attempt' = attempt + 1
    /\ rpc' = "calling"
    /\ UNCHANGED <<max_retries, delay, exponential_backoff, last_exception,
                   outcomes, slept, rret>>

(***************************************************************************)
(* exceptions.ErrorHandler, its methods called one at a time               *)
(***************************************************************************)
\* handle_error calls in one behaviour
MaxErrors == 52

\* self.max_stored_errors
max_stored_errors == 50

\* error_code of the error handled: that of an AllSkyError, or
\* UNEXPECTED_ERROR for any other exception
ErrorCodes == {"CAMERA_ERROR", "UNEXPECTED_ERROR"}

\* context of handle_error, "" for None
Contexts == {"", "capture"}

VARIABLES
    error_count,      \* self.error_count
    last_errors,      \* self.last_errors: each entry the number of the
                      \* handle_error call that appended it
    err_ret,          \* what the last handle_error call returned
    nrecorded,        \* handle_error calls so far
    since_clear       \* handle_error calls since the last clear_error_history

errVars == <<error_count, last_errors, err_ret, nrecorded, since_clear>>

\* ErrorHandler.__init__
ErrInit ==
    /\ error_count = 0
    /\ last_errors = <<>>
    /\ err_ret = [id |-> 0, error_code |-> "", context |-> ""]
    /\ nrecorded = 0
    /\ since_clear = 0

\* The handler that drops the newest entry of a full buffer.
HandleError_DropsNewest(code, context) ==
    LET id == nrecorded + 1
        appended == Append(last_errors, id)
    IN /\ nrecorded < MaxErrors
       /\ error_count' = error_count + 1
       /\ last_errors' = IF Len(appended) > max_stored_errors
                         THEN SubSeq(appended, 1, Len(appended) - 1)
                         ELSE appended
       /\ err_ret' = [id |-> id, error_code |-> code, context |-> context]
       /\ nrecorded' = id
       /\ since_clear' = since_clear + 1

\* ErrorHandler.handle_error
HandleError(code, context) ==
    LET id == nrecorded + 1
        appended == Append(last_errors, id)
    IN /\ nrecorded < MaxErrors
       /\ error_count' = error_count + 1
       /\ last_errors' = IF Len(appended) > max_stored_errors
                         THEN Tail(appended)
                         ELSE appended
       /\ err_ret' = [id |-> id, error_code |-> code, context |-> context]
       /\ nrecorded' = id
       /\ since_clear' = since_clear + 1

\* The clearing that also resets the counter.
ClearErrorHistory_ResetsCount ==
    /\ last_errors' = <<>>
    /\ since_clear' = 0
    /\ error_count' = 0
    /\ UNCHANGED <<err_ret, nrecorded>>

\* ErrorHandler.clear_error_history
ClearErrorHistory ==
    /\ last_errors' = <<>>
    /\ since_clear' = 0
    /\ UNCHANGED <<error_count, err_ret, nrecorded>>

\* ErrorHandler.get_error_statistics
ErrorStatistics ==
    [total_errors |-> error_count,
     recent_errors |-> Len(last_errors),
     last_error |-> IF last_errors # <<>> THEN last_errors[Len(last_errors)]
                    ELSE 0]

(***************************************************************************)
(* AstronomyCalculator.calculate_exposure_settings (allsky_complete.py)    *)
(* and calculate_exposure_settings (allsky.py): the lighting period of a   *)
(* time under the sun data of its day.  The settings of a period stand     *)
(* for themselves: the configuration holds a pair for each of the five.    *)
(***************************************************************************)
\* The latest clock reading of a day
MaxClock == 4

Clock == 0..MaxClock

\* A key the sun data lacks: s[key] raises KeyError
Missing == -1

\* The keys of the sun data, from dawn to dusk
Boundaries ==
    <<"astronomical_dawn", "nautical_dawn", "civil_dawn", "sunrise",
      "sunset", "civil_dusk", "nautical_dusk", "astronomical_dusk">>

BoundaryNames == {Boundaries[i] : i \in DOMAIN Boundaries}

\* time_periods, in the order the loop tries them
time_periods == <<"night", "astronomical", "nautical", "civil", "day">>

\* No sun data: get_sun_data returned None
NoSunData == [ok |-> FALSE, at |-> [k \in BoundaryNames |-> Missing]]

SunData(at) == [ok |-> TRUE, at |-> at]

\* astronomical_dawn <= nautical_dawn <= ... <= astronomical_dusk
Monotonic(s) ==
    /\ s.ok
    /\ \A k \in BoundaryNames : s.at[k] # Missing
    /\ \A i \in 1..(Len(Boundaries) - 1) :
          s.at[Boundaries[i]] <= s.at[Boundaries[i + 1]]

RECURSIVE MonotonicFrom(_, _)
\* The ways of filling the keys from the i-th on with clock readings that
\* do not decrease, none before lo
MonotonicFrom(i, lo) ==
    IF i > Len(Boundaries) THEN {<<>>}
    ELSE UNION {{<<v>> \o rest : rest \in MonotonicFrom(i + 1, v)} :
                v \in lo..MaxClock}

\* Sun data as the ephemeris is meant to give them
MonotonicSets ==
    {SunData([k \in BoundaryNames |->
                 q[CHOOSE i \in DOMAIN Boundaries : Boundaries[i] = k]]) :
     q \in MonotonicFrom(1, 0)}

\* Sun data out of order or with keys missing
DegenerateSets == {SunData(at) : at \in [BoundaryNames -> {Missing, 1, 3}]}

VARIABLES
    current_time,     \* the argument of calculate_exposure_settings
    sun_data,         \* s, what get_sun_data returned for it
    comparable,       \* whether current_time and the sun data's times can
                      \* be ordered (both naive or both aware); if not, < <=
                      \* and >= raise TypeError
    settings,         \* what AstronomyCalculator.calculate_exposure_settings
                      \* returned: the period whose settings, "raised",
                      \* or "" before the call
    legacy_settings   \* the same for allsky.calculate_exposure_settings

classVars ==
    <<current_time, sun_data, comparable, settings, legacy_settings>>

\* No classification is going on
ClassIdle ==
    /\ current_time = 0
    /\ sun_data = NoSunData
    /\ comparable = TRUE
    /\ settings = ""
    /\ legacy_settings = ""

\* A time and the sun data of its day, before the call
ClassInit ==
    /\ current_time \in Clock
    /\ sun_data \in MonotonicSets \cup DegenerateSets \cup {NoSunData}
    /\ comparable \in BOOLEAN
    /\ settings = ""
    /\ legacy_settings = ""

\* a < b of two times, one of them read from the sun data: "T", "F", or
\* "E" when it raises
Less(a, b, c) ==
    IF a = Missing \/ b = Missing \/ ~c THEN "E"
    ELSE IF a < b THEN "T" ELSE "F"

\* a <= b likewise
LessEq(a, b, c) ==
    IF a = Missing \/ b = Missing \/ ~c THEN "E"
    ELSE IF a <= b THEN "T" ELSE "F"

\* x or y: y is evaluated only when x is false
OrElse(x, y) == IF x = "F" THEN y ELSE x

\* The interval closed at its end and open at its start.
Within_EndInclusive(a, t, b, c) ==
    IF Less(a, t, c) = "T" THEN LessEq(t, b, c) ELSE Less(a, t, c)

\* a <= t < b: the second comparison is evaluated only when the first holds
Within(a, t, b, c) ==
    IF LessEq(a, t, c) = "T" THEN Less(t, b, c) ELSE LessEq(a, t, c)

\* The day that includes the instant of sunset.
DayCondition_ClosedInterval(t, at, c) ==
    IF LessEq(at["sunrise"], t, c) = "T" THEN LessEq(t, at["sunset"], c)
    ELSE LessEq(at["sunrise"], t, c)

\* The condition of 'day'
DayCondition(t, at, c) == Within(at["sunrise"], t, at["sunset"], c)

\* The lambda of a period in time_periods
Condition(period, t, at, c) ==
    CASE period = "night" ->
           OrElse(Less(t, at["astronomical_dawn"], c),
                  LessEq(at["astronomical_dusk"], t, c))
      [] period = "astronomical" ->
           OrElse(Within(at["astronomical_dawn"], t, at["nautical_dawn"], c),
                  Within(at["nautical_dusk"], t, at["astronomical_dusk"], c))
      [] period = "nautical" ->
           OrElse(Within(at["nautical_dawn"], t, at["civil_dawn"], c),
                  Within(at["civil_dusk"], t, at["nautical_dusk"], c))
      [] period = "civil" ->
           OrElse(Within(at["civil_dawn"], t, at["sunrise"], c),
                  Within(at["sunset"], t, at["civil_dusk"], c))
      [] period = "day" -> DayCondition(t, at, c)

RECURSIVE FirstMatch(_, _, _, _)
\* The loop over time_periods from the i-th on: the first period whose
\* condition holds, a condition that raises being skipped; night after the
\* loop
FirstMatch(i, t, at, c) ==
    IF i > Len(time_periods) THEN "night"
    ELSE IF Condition(time_periods[i], t, at, c) = "T" THEN time_periods[i]
    ELSE FirstMatch(i + 1, t, at, c)

\* AstronomyCalculator.calculate_exposure_settings, s being what
\* get_sun_data returned
ExposureSettings(t, s, c) ==
    IF ~s.ok THEN "night" ELSE FirstMatch(1, t, s.at, c)

\* allsky.calculate_exposure_settings after sun(): the eight keys are read
\* first, then the if/elif chain from day to night; nothing is caught
LegacyExposureSettings(t, s, c) ==
    LET at == s.at
        try(i) == Condition(time_periods[i], t, at, c)
    IN IF \E k \in BoundaryNames : at[k] = Missing THEN "raised"
       ELSE IF try(5) # "F" THEN (IF try(5) = "T" THEN "day" ELSE "raised")
       ELSE IF try(4) # "F" THEN (IF try(4) = "T" THEN "civil" ELSE "raised")
       ELSE IF try(3) # "F"
            THEN (IF try(3) = "T" THEN "nautical" ELSE "raised")
       ELSE IF try(2) # "F"
            THEN (IF try(2) = "T" THEN "astronomical" ELSE "raised")
       ELSE "night"

\* One call of each function with the same time and sun data
CalculateExposureSettings ==
    /\ settings = ""
    /\ settings' = ExposureSettings(current_time, sun_data, comparable)
    /\ legacy_settings' =
          IF sun_data.ok
          THEN LegacyExposureSettings(current_time, sun_data, comparable)
          ELSE "raised"
    /\ UNCHANGED <<current_time, sun_data, comparable>>

(***************************************************************************)
(* AstronomyCalculator.get_sun_data and its lru_cache, update_location_info *)
(* and the calls of capture_callback and set_station_info, one at a time.  *)
(* Fewer keys occur here than the cache's maxsize (1440): no entry is      *)
(* evicted.                                                                *)
(***************************************************************************)
\* The latest timestamp; two successive timestamps fall on one date
MaxStamp == 3

\* Calls in one behaviour
MaxLookups == 3

Stamps == 0..MaxStamp

\* station latitude/longitude settings
Stations == {1, 2}

\* datetime.fromisoformat(date_str).date()
DateOf(ts) == ts \div 2

Dates == {DateOf(ts) : ts \in Stamps}

\* The time of day of a timestamp, as a clock reading
ClockOf(ts) == 2 * (ts % 2)

\* sun(self.city.observer, date=date) when it succeeds: at station 1 the
\* sun is up from 1 to 3, at station 2 from 0 to 1
SunOf(station) ==
    [k \in BoundaryNames |->
        IF k \in {"astronomical_dawn", "nautical_dawn", "civil_dawn",
                  "sunrise"}
        THEN (IF station = 1 THEN 1 ELSE 0)
        ELSE (IF station = 1 THEN 3 ELSE 1)]

\* What get_sun_data returns: None, or the sun data of a station and date
Unavailable == [ok |-> FALSE, station |-> 0, date |-> 0]

Computed(station, date) == [ok |-> TRUE, station |-> station, date |-> date]

\* The sun data calculate_exposure_settings sees in an entry
DataOf(e) == IF e.ok THEN SunData(SunOf(e.station)) ELSE NoSunData

VARIABLES
    city,             \* self.city: the station update_location_info read
    sun_cache,        \* the lru_cache of get_sun_data: date_str -> result
    ephemeris,        \* calls of sun() so far, by station and date
    sun_call,         \* the last call: its name, its date_str, what
                      \* get_sun_data did and returned, the settings
    nsun              \* calls so far

sunVars == <<city, sun_cache, ephemeris, sun_call, nsun>>

NoSunCall ==
    [op |-> "none", key |-> 0, invoked |-> FALSE, failed |-> FALSE,
     raised |-> FALSE, ret |-> Unavailable, settings |-> ""]

\* AstronomyCalculator.__init__ and an empty lru_cache
SunInit ==
    /\ city \in Stations
    /\ sun_cache = [ts \in {} |-> Unavailable]
    /\ ephemeris = [st \in Stations, d \in Dates |-> 0]
    /\ sun_call = NoSunCall
    /\ nsun = 0

SunIdle ==
    /\ city = 1
    /\ sun_cache = [ts \in {} |-> Unavailable]
    /\ ephemeris = [st \in Stations, d \in Dates |-> 0]
    /\ sun_call = NoSunCall
    /\ nsun = 0

\* The lookup that lets the failure of sun() out and stores nothing.
SunLookup_Propagates(key, ok) ==
    IF key \in DOMAIN sun_cache
    THEN [cache |-> sun_cache, invoked |-> FALSE, failed |-> FALSE,
          raised |-> FALSE, ret |-> sun_cache[key]]
    ELSE IF ok
    THEN [cache |-> [ts \in DOMAIN sun_cache \cup {key} |->
                        IF ts = key THEN Computed(city, DateOf(key))
                        ELSE sun_cache[ts]],
          invoked |-> TRUE, failed |-> FALSE, raised |-> FALSE,
          ret |-> Computed(city, DateOf(key))]
    ELSE [cache |-> sun_cache, invoked |-> TRUE, failed |-> TRUE,
          raised |-> TRUE, ret |-> Unavailable]

\* get_sun_data(date_str) through lru_cache: a key already cached returns
\* its entry; otherwise sun() is called for the date of the key at
\* self.city, None taking the place of its result when it raises, and what
\* get_sun_data returns is cached under the key
SunLookup(key, ok) ==
    LET r == IF ok THEN Computed(city, DateOf(key)) ELSE Unavailable
    IN IF key \in DOMAIN sun_cache
       THEN [cache |-> sun_cache, invoked |-> FALSE, failed |-> FALSE,
             raised |-> FALSE, ret |-> sun_cache[key]]
       ELSE [cache |-> [ts \in DOMAIN sun_cache \cup {key} |->
                           IF ts = key THEN r ELSE sun_cache[ts]],
             invoked |-> TRUE, failed |-> ~ok, raised |-> FALSE,
             ret |-> r]

\* The count of sun() calls after a lookup
Counted(r, key) ==
    IF r.invoked
    THEN [ephemeris EXCEPT ![city, DateOf(key)] = @ + 1]
    ELSE ephemeris

\* get_sun_data(current_time.isoformat()), sun() succeeding or not
GetSunData(ts, ok) ==
    LET r == SunLookup(ts, ok)
    IN /\ nsun < MaxLookups
       /\ nsun' = nsun + 1
       /\ sun_cache' = r.cache
       /\ ephemeris' = Counted(r, ts)
       /\ sun_call' = [op |-> "get_sun_data", key |-> ts,
                       invoked |-> r.invoked, failed |-> r.failed,
                       raised |-> r.raised, ret |-> r.ret, settings |-> ""]
       /\ UNCHANGED city

\* calculate_exposure_settings(current_time): get_sun_data, then the period
\* of the time of day; an exception is caught by safe_execute
CalculateWithCache(ts, ok, c) ==
    LET r == SunLookup(ts, ok)
    IN /\ nsun < MaxLookups
       /\ nsun' = nsun + 1
       /\ sun_cache' = r.cache
       /\ ephemeris' = Counted(r, ts)
       /\ sun_call' = [op |-> "calculate_exposure_settings", key |-> ts,
                       invoked |-> r.invoked, failed |-> r.failed,
                       raised |-> FALSE, ret |-> r.ret,
                       settings |->
                           IF r.raised THEN "none"
                           ELSE ExposureSettings(ClockOf(ts), DataOf(r.ret),
                                                 c)]
       /\ UNCHANGED city

\* set_station_info: config_manager.update_station_info and
\* update_location_info; the lru_cache is not touched
UpdateLocationInfo(station) ==
    /\ nsun < MaxLookups
    /\ nsun' = nsun + 1
    /\ city' = station
    /\ sun_call' = [NoSunCall EXCEPT !.op = "update_location_info"]
    /\ UNCHANGED <<sun_cache, ephemeris>>

(***************************************************************************)
(* ScheduledCapture._should_capture and the iteration of _capture_loop     *)
(* that asks it, taken alone                                               *)
(***************************************************************************)
VARIABLES
    gate              \* the last iteration: the hour datetime.now() gave,
                      \* whether the weather allowed a capture, what
                      \* _should_capture returned and whether the callback
                      \* was called

gateVars == <<gate>>

NoGate ==
    [asked |-> FALSE, hour |-> 0, weather_ok |-> TRUE, approved |-> FALSE,
     invoked |-> FALSE]

GateIdle == gate = NoGate

\* _capture_loop: if self._should_capture(): self.capture_callback()
GateIteration(hour, weather_ok) ==
    /\ gate' = [asked |-> TRUE, hour |-> hour, weather_ok |-> weather_ok,
                approved |-> ShouldCapture(hour),
                invoked |-> ShouldCapture(hour)]
    /\ UNCHANGED schedVars

(***************************************************************************)
(* capture_callback and the /capture_image route: the scheduler thread and *)
(* request threads at the capture device.  Thread 1 is the scheduler's     *)
(* loop thread, the others serve /capture_image requests.                  *)
(***************************************************************************)
\* Threads that call capture_callback
MaxCapturers == 2

\* Captures started in one behaviour
MaxCaptures == 3

\* max_retries of CameraManager.capture_image
CaptureRetries == 3

Capturers == 1..MaxCapturers

SchedulerThread == 1

VARIABLES
    cpc,              \* where each thread is in capture_callback
    cattempt,         \* attempt of the retry loop around capture_image
    cfailed,          \* whether the thread's last capture_image raised after
                      \* its retries
    latest,           \* the newest image get_latest_images(1) finds: 0 for
                      \* none, else the number of the capture that saved it
    cres,             \* what /capture_image answered a request thread
    ncaptures,        \* captures started so far
    nfailed           \* captures that ended without an image saved

camVars == <<cpc, cattempt, cfailed, latest, cres, ncaptures, nfailed>>

NoResponse == [status |-> 0, image |-> 0]

\* No capture under way; images of earlier runs may be in the store
CamInit ==
    /\ cpc = [t \in Capturers |-> "idle"]
    /\ cattempt = [t \in Capturers |-> 0]
    /\ cfailed = [t \in Capturers |-> FALSE]
    /\ latest = 0
    /\ cres = [t \in Capturers |-> NoResponse]
    /\ ncaptures = 0
    /\ nfailed = 0

\* The threads between the start of configure and the end of the frame read
AtDevice == {t \in Capturers : cpc[t] \in {"configure", "read"}}

\* The threads inside with camera_lock
InsideLock == {t \in Capturers : cpc[t] \in {"configure", "read", "process"}}

\* capture_callback is entered and camera_lock acquired
Acquire(t) ==
    /\ cpc[t] = "idle"
    /\ ncaptures < MaxCaptures
    /\ camera_lock = 0
    /\ camera_lock' = t
    /\ ncaptures' = ncaptures + 1
    /\ cpc' = [cpc EXCEPT ![t] = "configure"]
    /\ cfailed' = [cfailed EXCEPT ![t] = FALSE]
    /\ cres' = [cres EXCEPT ![t] = NoResponse]
    /\ UNCHANGED <<cattempt, latest, nfailed, errVars>>

\* calculate_exposure_settings and configure_settings: when the first
\* returns None the unpacking raises and the with block is left; a failure
\* of configure_settings is swallowed by safe_execute
Configure(t, raises) ==
    /\ cpc[t] = "configure"
    /\ IF raises
       THEN /\ cpc' = [cpc EXCEPT ![t] = "returned"]
            /\ camera_lock' = 0
       ELSE /\ cpc' = [cpc EXCEPT ![t] = "read"]
            /\ UNCHANGED camera_lock
    /\ cattempt' = [cattempt EXCEPT ![t] = 0]
    /\ nfailed' = IF raises THEN nfailed + 1 ELSE nfailed
    /\ UNCHANGED <<cfailed, latest, cres, ncaptures, errVars>>

\* camera_manager.capture_image: an attempt returns a frame
ReadReturns(t) ==
    /\ cpc[t] = "read"
    /\ cpc' = [cpc EXCEPT ![t] = "process"]
    /\ UNCHANGED <<camera_lock, cattempt, cfailed, latest, cres, ncaptures,
                   nfailed, errVars>>

\* The last attempt's exception leaving the with block without a release.
ReadRaises_KeepsLock(t) ==
    /\ cpc[t] = "read"
    /\ IF cattempt[t] < CaptureRetries
       THEN /\ cattempt' = [cattempt EXCEPT ![t] = @ + 1]
            /\ UNCHANGED <<cpc, cfailed, camera_lock, nfailed>>
       ELSE /\ cpc' = [cpc EXCEPT ![t] = "returned"]
            /\ cfailed' = [cfailed EXCEPT ![t] = TRUE]
            /\ nfailed' = nfailed + 1
            /\ UNCHANGED <<cattempt, camera_lock>>
    /\ UNCHANGED <<latest, cres, ncaptures, errVars>>

\* camera_manager.capture_image: an attempt raises; retry_on_failure sleeps
\* and tries again, the lock being held, or after the last attempt raises:
\* the with block is left, the lock released, and capture_callback logs the
\* exception and returns
ReadRaises(t) ==
    /\ cpc[t] = "read"
    /\ IF cattempt[t] < CaptureRetries
       THEN /\ cattempt' = [cattempt EXCEPT ![t] = @ + 1]
            /\ UNCHANGED <<cpc, cfailed, camera_lock, nfailed>>
       ELSE /\ cpc' = [cpc EXCEPT ![t] = "returned"]
            /\ cfailed' = [cfailed EXCEPT ![t] = TRUE]
            /\ nfailed' = nfailed + 1
            /\ camera_lock' = 0
            /\ UNCHANGED cattempt
    /\ UNCHANGED <<latest, cres, ncaptures, errVars>>

\* The rest of the with block: overlays and image_manager.save_image, which
\* saves the image, or saves nothing (its failure swallowed by
\* safe_execute, or an overlay step raising); the lock is released
Process(t, saved) ==
    /\ cpc[t] = "process"
    /\ cpc' = [cpc EXCEPT ![t] = "returned"]
    /\ camera_lock' = 0
    /\ latest' = IF saved THEN ncaptures ELSE latest
    /\ nfailed' = IF saved THEN nfailed ELSE nfailed + 1
    /\ UNCHANGED <<cattempt, cfailed, cres, ncaptures, errVars>>

\* _capture_loop after capture_callback returned: the callback raised
\* nothing, so the loop's except branch is not entered
LoopContinues(t) ==
    /\ t = SchedulerThread
    /\ cpc[t] = "returned"
    /\ cpc' = [cpc EXCEPT ![t] = "idle"]
    /\ UNCHANGED <<camera_lock, cattempt, cfailed, latest, cres, ncaptures,
                   nfailed, errVars>>

\* /capture_image after capture_callback returned: the newest image of the
\* store is sent, 500 is answered when there is none or send_file raises;
\* only an exception of send_file reaches the route's except branch and
\* handle_error
Respond(t, sendable) ==
    /\ t # SchedulerThread
    /\ cpc[t] = "returned"
    /\ cpc' = [cpc EXCEPT ![t] = "idle"]
    /\ cres' = [cres EXCEPT ![t] =
                  IF latest # 0 /\ sendable
                  THEN [status |-> 200, image |-> latest]
                  ELSE [status |-> 500, image |-> 0]]
    /\ IF latest # 0 /\ ~sendable
       THEN HandleError("UNEXPECTED_ERROR", "capture_image")
       ELSE UNCHANGED errVars
    /\ UNCHANGED <<camera_lock, cattempt, cfailed, latest, ncaptures, nfailed>>

(***************************************************************************)
(* AstronomyManager: the cache of celestial objects                        *)
(***************************************************************************)
\* The clock of the celestial cache stops at MaxAstroTime; a tick is half
\* a minute, so that two requests fall in one minute or in two
MaxAstroTime == 5

\* astronomy.cache_duration in ticks (600 s in the configuration's default)
AstroCacheDuration == 4

\* Requests for celestial objects in one behaviour
MaxAstroRequests == 3

\* date_time.strftime('%Y-%m-%d %H:%M'): the minute a tick falls in
MinuteOf(t) == t \div 2

\* _get_cache_key: f"{lat:.4f},{lon:.4f},{date_str}"
AstroCacheKey(loc, t) == <<CacheKey(loc), MinuteOf(t)>>

VARIABLES
    astro_cache,      \* self.cache: the entries, one for each key
    astro_now,        \* datetime.now()
    astro_req,        \* the last request for celestial objects and its answer
    nastro            \* requests so far

astroVars == <<astro_cache, astro_now, astro_req, nastro>>

NoAstroRequest ==
    [n |-> 0, loc |-> 0, at |-> 0, include_planets |-> FALSE, prev |-> -1,
     hit |-> FALSE, data |-> [observer |-> 0, planets |-> "none", at |-> 0]]

\* AstronomyManager.__init__
AstroInit ==
    /\ astro_cache = {}
    /\ astro_now = 0
    /\ astro_req = NoAstroRequest
    /\ nastro = 0

\* _is_cache_valid
AstroCacheValid(key, t) ==
    \E e \in astro_cache : e.key = key /\ t - e.timestamp < AstroCacheDuration

\* self.cache[cache_key]['data']
AstroData(key) == (CHOOSE e \in astro_cache : e.key = key).data

\* The time of the last computation for the rounded location of loc, -1
\* when there was none: entries are never removed from self.cache
LastComputation(loc) ==
    LET times == {e.timestamp : e \in {x \in astro_cache :
                                          x.key[1] = CacheKey(loc)}}
    IN IF times = {} THEN -1
       ELSE CHOOSE t \in times : \A u \in times : u <= t

\* get_celestial_objects, the date_time being now
GetCelestialObjects(loc, include_planets, planets_ok) ==
    LET key == AstroCacheKey(loc, astro_now)
        valid == AstroCacheValid(key, astro_now)
        celestial_data ==
            [observer |-> loc,
             planets |-> IF ~include_planets THEN "skipped"
                         ELSE IF planets_ok THEN "computed" ELSE "failed",
             at |-> astro_now]
        data == IF valid THEN AstroData(key) ELSE celestial_data
    IN /\ nastro < MaxAstroRequests
       /\ nastro' = nastro + 1
       /\ astro_cache' =
            IF valid THEN astro_cache
            ELSE {e \in astro_cache : e.key # key} \cup
                 {[key |-> key, data |-> celestial_data,
                   timestamp |-> astro_now]}
       /\ astro_req' = [n |-> nastro + 1, loc |-> loc, at |-> astro_now,
                        include_planets |-> include_planets,
                        prev |-> LastComputation(loc),
                        hit |-> valid, data |-> data]
       /\ UNCHANGED astro_now

\* get_bright_stars_for_image
GetBrightStarsForImage(loc) == GetCelestialObjects(loc, FALSE, TRUE)

\* get_astronomy_summary
GetAstronomySummary(loc, planets_ok) ==
    GetCelestialObjects(loc, TRUE, planets_ok)

\* Time passes
AstroTick ==
    /\ astro_now < MaxAstroTime
    /\ astro_now' = astro_now + 1
    /\ UNCHANGED <<astro_cache, astro_req, nastro>>

(***************************************************************************)
(* ErrorHandler.handle_error called by several request threads at once.    *)
(* No lock guards the handler: `self.error_count += 1` reads the counter   *)
(* and writes it back in two steps, and the append, the length test and    *)
(* the pop(0) are steps of their own.                                      *)
(***************************************************************************)
\* Threads that call handle_error
MaxHandlers == 2

\* handle_error calls in one behaviour of the concurrent handler
MaxHandled == 3

Handlers == 1..MaxHandlers

\* Errors handled before the concurrent calls start: none, one short of a
\* full buffer, and more than the buffer holds
HandledBefore == {0, max_stored_errors - 1, max_stored_errors + 1}

VARIABLES
    hpc,              \* where each thread is in handle_error
    hreg,             \* the value of self.error_count the thread has read
    hid,              \* the error the thread is handling
    hbase,            \* errors handled before the concurrent calls
    hcalls            \* handle_error calls entered so far

handlerVars == <<hpc, hreg, hid, hbase, hcalls>>

\* No thread is in handle_error
HandlerIdle ==
    /\ hpc = [t \in Handlers |-> "idle"]
    /\ hreg = [t \in Handlers |-> 0]
    /\ hid = [t \in Handlers |-> 0]
    /\ hbase = 0
    /\ hcalls = 0

\* An ErrorHandler that has handled hbase errors, one call at a time
HandlerInit ==
    /\ hpc = [t \in Handlers |-> "idle"]
    /\ hreg = [t \in Handlers |-> 0]
    /\ hid = [t \in Handlers |-> 0]
    /\ hbase \in HandledBefore
    /\ hcalls = 0
    /\ error_count = hbase
    /\ last_errors = [i \in 1..Min(hbase, max_stored_errors) |->
                         hbase - Min(hbase, max_stored_errors) + i]
    /\ err_ret = [id |-> hbase,
                  error_code |-> IF hbase = 0 THEN "" ELSE "UNEXPECTED_ERROR",
                  context |-> ""]
    /\ nrecorded = hbase
    /\ since_clear = hbase

\* handle_error is entered
HandleBegin(t) ==
    /\ hpc[t] = "idle"
    /\ hcalls < MaxHandled
    /\ hcalls' = hcalls + 1
    /\ hid' = [hid EXCEPT ![t] = hbase + hcalls + 1]
    /\ hpc' = [hpc EXCEPT ![t] = "load"]
    /\ UNCHANGED <<hreg, hbase, error_count, last_errors>>

\* self.error_count += 1: the attribute is read
LoadCount(t) ==
    /\ hpc[t] = "load"
    /\ hreg' = [hreg EXCEPT ![t] = error_count]
    /\ hpc' = [hpc EXCEPT ![t] = "store"]
    /\ UNCHANGED <<hid, hbase, hcalls, error_count, last_errors>>

\* self.error_count += 1: the sum is stored
StoreCount(t) ==
    /\ hpc[t] = "store"
    /\ error_count' = hreg[t] + 1
    /\ hpc' = [hpc EXCEPT ![t] = "append"]
    /\ UNCHANGED <<hreg, hid, hbase, hcalls, last_errors>>

\* self.last_errors.append(error_info)
AppendError(t) ==
    /\ hpc[t] = "append"
    /\ last_errors' = Append(last_errors, hid[t])
    /\ hpc' = [hpc EXCEPT ![t] = "check"]
    /\ UNCHANGED <<hreg, hid, hbase, hcalls, error_count>>

\* if len(self.last_errors) > self.max_stored_errors; without a pop the
\* call returns
CheckLength(t) ==
    /\ hpc[t] = "check"
    /\ hpc' = [hpc EXCEPT ![t] =
                 IF Len(last_errors) > max_stored_errors THEN "pop"
                 ELSE "idle"]
    /\ UNCHANGED <<hreg, hid, hbase, hcalls, error_count, last_errors>>

\* self.last_errors.pop(0), and the call returns
PopOldest(t) ==
    /\ hpc[t] = "pop"
    /\ last_errors' = Tail(last_errors)
    /\ hpc' = [hpc EXCEPT ![t] = "idle"]
    /\ UNCHANGED <<hreg, hid, hbase, hcalls, error_count>>

\* The variables of the exposure settings, the sun data cache, the capture
\* gate, the capture device, the celestial cache and the threads in
\* handle_error
stationVars ==
    <<classVars, sunVars, gateVars, camVars, astroVars, handlerVars>>

vars ==
    <<schedVars, wxVars, retVars, imgVars, idxVars, retryVars, errVars,
      stationVars>>

\* A step of the scheduler leaves the weather cache and the image store alone
SchedOnly ==
    UNCHANGED <<wxVars, retVars, imgVars, idxVars, retryVars, errVars,
                stationVars>>

WeatherOnly ==
    UNCHANGED <<schedVars, retVars, imgVars, idxVars, retryVars, errVars,
                stationVars>>

RetentionOnly ==
    UNCHANGED <<schedVars, wxVars, imgVars, idxVars, retryVars, errVars,
                stationVars>>

ImageOnly ==
    UNCHANGED <<schedVars, wxVars, idxVars, retryVars, errVars, stationVars>>

IndexOnly == UNCHANGED <<schedVars, wxVars, retryVars, errVars, stationVars>>

RetryOnly ==
    UNCHANGED <<schedVars, wxVars, retVars, imgVars, idxVars, errVars,
                stationVars>>

ErrOnly ==
    UNCHANGED <<schedVars, wxVars, retVars, imgVars, idxVars, retryVars,
                stationVars>>

ClassOnly ==
    UNCHANGED <<schedVars, wxVars, retVars, imgVars, idxVars, retryVars,
                errVars, sunVars, gateVars, camVars, astroVars, handlerVars>>

SunOnly ==
    UNCHANGED <<schedVars, wxVars, retVars, imgVars, idxVars, retryVars,
                errVars, classVars, gateVars, camVars, astroVars,
                handlerVars>>

\* _should_capture reads the configuration and changes nothing
GateOnly ==
    UNCHANGED <<wxVars, retVars, imgVars, idxVars, retryVars, errVars,
                classVars, sunVars, camVars, astroVars, handlerVars>>

\* Of the variables of the index only camera_lock changes in a capture
CamOnly ==
    UNCHANGED <<schedVars, wxVars, retVars, imgVars, ipc, iop, isnap, imixed,
                retryVars, classVars, sunVars, gateVars, astroVars,
                handlerVars>>

AstroOnly ==
    UNCHANGED <<schedVars, wxVars, retVars, imgVars, idxVars, retryVars,
                errVars, classVars, sunVars, gateVars, camVars, handlerVars>>

\* The threads in handle_error change the counter and the buffer only
HandlerOnly ==
    UNCHANGED <<schedVars, wxVars, retVars, imgVars, idxVars, retryVars,
                err_ret, nrecorded, since_clear, classVars, sunVars, gateVars,
                camVars, astroVars>>

\* No exposure settings asked for, an empty sun data cache, no capture
StationIdle ==
    ClassIdle /\ SunIdle /\ GateIdle /\ CamInit /\ AstroInit /\ HandlerIdle

\* No decorated function is being called and no error has been handled
Others == RetryIdle /\ ErrInit /\ StationIdle

SchedNext ==
    \/ Start /\ SchedOnly
    \/ StopBegin /\ SchedOnly
    \/ StopSet /\ SchedOnly
    \/ StopJoinDone /\ SchedOnly
    \/ StopJoinTimeout /\ SchedOnly
    \/ \E t \in Threads : LoopCheck(t) /\ SchedOnly
    \/ \E t \in Threads : LoopGate(t) /\ SchedOnly
    \/ \E t \in Threads : CaptureReturn(t) /\ SchedOnly
    \/ \E t \in Threads : CaptureRaise(t) /\ SchedOnly
    \/ \E t \in Threads : WaitWake(t) /\ SchedOnly
    \/ \E t \in Threads : WaitTimeout(t) /\ SchedOnly

SchedSpecInit ==
    /\ SchedInit /\ WeatherInit /\ RetentionEmpty /\ ImageInit /\ IndexIdle
    /\ Others

SchedSpec == SchedSpecInit /\ [][SchedNext]_vars

\* The loop threads, the capture callback and stop() keep running; the
\* interval timer of stop_event.wait is never required to fire, and nobody
\* is required to call start() or stop().
SchedFairSpec ==
    /\ SchedSpec
    /\ \A t \in Threads : WF_vars(LoopStep(t) /\ SchedOnly)
    /\ WF_vars(StopSet /\ SchedOnly)
    /\ WF_vars(StopJoinDone /\ SchedOnly)

WeatherNext ==
    \/ \E c \in Callers, loc \in Locs : GetBegin(c, loc) /\ WeatherOnly
    \/ \E c \in Callers : FetchOk(c) /\ WeatherOnly
    \/ \E c \in Callers : FetchFail(c) /\ WeatherOnly
    \/ Tick /\ WeatherOnly

WeatherSpecInit ==
    /\ SchedDefault /\ WeatherInit /\ RetentionEmpty /\ ImageInit /\ IndexIdle
    /\ Others

WeatherSpec == WeatherSpecInit /\ [][WeatherNext]_vars

RetentionNext ==
    \/ \E all_files \in Listings(disk) :
          \E failed \in SUBSET Range(OldFiles(all_files, disk)) :
             Cleanup(all_files, failed) /\ RetentionOnly

RetentionSpecInit ==
    /\ SchedDefault /\ WeatherInit /\ RetentionInit /\ ImageInit /\ IndexIdle
    /\ Others

RetentionSpec == RetentionSpecInit /\ [][RetentionNext]_vars

ImageNext ==
    \/ /\ nops < MaxOps
       /\ \E ct \in CaptureTimes, mt \in 1..MaxMtime :
          \E all_files \in Listings([disk EXCEPT ![PathOf(ct)] = mt]) :
             \E failed \in SUBSET Range(OldFiles(all_files,
                                   [disk EXCEPT ![PathOf(ct)] = mt])) :
                SaveImage(ct, mt, all_files, failed) /\ ImageOnly
    \/ \E ct \in CaptureTimes : SaveImageFails(ct) /\ ImageOnly
    \/ \E p \in Paths : DeleteImage(p) /\ ImageOnly
    \/ \E p \in Paths : DeleteImageFails(p) /\ ImageOnly
    \/ ManagerCleanup /\ ImageOnly
    \/ AgeOut /\ ImageOnly

ImageSpecInit ==
    /\ SchedDefault /\ WeatherInit /\ RetentionFresh /\ ImageInit /\ IndexIdle
    /\ Others

ImageSpec == ImageSpecInit /\ [][ImageNext]_vars

QueryNext ==
    \/ \E items \in Orderings({p \in Paths : metadata_cache[p] # 0}) :
          \E start \in QueryTimes, end \in QueryTimes, limit \in Limits :
             GetImages(items, start, end, limit) /\ ImageOnly

QuerySpecInit ==
    SchedDefault /\ WeatherInit /\ QueryInit /\ IndexIdle /\ Others

QuerySpec == QuerySpecInit /\ [][QueryNext]_vars

LoadNext ==
    \/ Restart /\ ImageOnly

LoadSpecInit ==
    SchedDefault /\ WeatherInit /\ LoadInit /\ IndexIdle /\ Others

LoadSpec == LoadSpecInit /\ [][LoadNext]_vars

IndexNext ==
    \/ \E w \in Writers, ct \in CaptureTimes, mt \in 1..MaxMtime :
          SaveStart(w, ct, mt) /\ IndexOnly
    \/ \E w \in Writers :
          \E all_files \in Listings(disk) :
             \E failed \in SUBSET Range(OldFiles(all_files, disk)) :
                SaveFinish(w, all_files, failed) /\ IndexOnly
    \/ \E w \in Writers, p \in Paths : DeleteStart(w, p) /\ IndexOnly
    \/ \E w \in Writers : CleanupStart(w) /\ IndexOnly
    \/ \E w \in Writers : RewriteFinish(w) /\ IndexOnly

IndexSpecInit ==
    /\ SchedDefault /\ WeatherInit /\ RetentionFresh /\ ImageInit /\ IndexIdle
    /\ Others

IndexSpec == IndexSpecInit /\ [][IndexNext]_vars

RetryNext ==
    \/ AttemptReturns /\ RetryOnly
    \/ AttemptRaises /\ RetryOnly
    \/ SleepDone /\ RetryOnly

RetrySpecInit ==
    /\ SchedDefault /\ WeatherInit /\ RetentionEmpty /\ ImageInit /\ IndexIdle
    /\ RetryInit /\ ErrInit /\ StationIdle

RetrySpec == RetrySpecInit /\ [][RetryNext]_vars

ErrNext ==
    \/ \E code \in ErrorCodes, context \in Contexts :
          HandleError(code, context) /\ ErrOnly
    \/ ClearErrorHistory /\ ErrOnly

ErrSpecInit ==
    /\ SchedDefault /\ WeatherInit /\ RetentionEmpty /\ ImageInit /\ IndexIdle
    /\ RetryIdle /\ ErrInit /\ StationIdle

ErrSpec == ErrSpecInit /\ [][ErrNext]_vars

\* The components outside the station's capture path at rest
Rest ==
    /\ SchedDefault /\ WeatherInit /\ RetentionEmpty /\ ImageInit /\ IndexIdle
    /\ RetryIdle /\ ErrInit /\ AstroInit /\ HandlerIdle

ClassNext == CalculateExposureSettings /\ ClassOnly

ClassSpecInit == Rest /\ ClassInit /\ SunIdle /\ GateIdle /\ CamInit

ClassSpec == ClassSpecInit /\ [][ClassNext]_vars

SunNext ==
    \/ \E ts \in Stamps, ok \in BOOLEAN : GetSunData(ts, ok) /\ SunOnly
    \/ \E ts \in Stamps, ok \in BOOLEAN, c \in BOOLEAN :
          CalculateWithCache(ts, ok, c) /\ SunOnly
    \/ \E station \in Stations : UpdateLocationInfo(station) /\ SunOnly

SunSpecInit == Rest /\ ClassIdle /\ SunInit /\ GateIdle /\ CamInit

SunSpec == SunSpecInit /\ [][SunNext]_vars

GateNext ==
    \E hour \in Hours, weather_ok \in BOOLEAN :
        GateIteration(hour, weather_ok) /\ GateOnly

GateSpecInit ==
    /\ SchedInit /\ WeatherInit /\ RetentionEmpty /\ ImageInit /\ IndexIdle
    /\ RetryIdle /\ ErrInit /\ ClassIdle /\ SunIdle /\ GateIdle /\ CamInit
    /\ AstroInit /\ HandlerIdle

GateSpec == GateSpecInit /\ [][GateNext]_vars

CamNext ==
    \/ \E t \in Capturers : Acquire(t) /\ CamOnly
    \/ \E t \in Capturers, raises \in BOOLEAN : Configure(t, raises) /\ CamOnly
    \/ \E t \in Capturers : ReadReturns(t) /\ CamOnly
    \/ \E t \in Capturers : ReadRaises(t) /\ CamOnly
    \/ \E t \in Capturers, saved \in BOOLEAN : Process(t, saved) /\ CamOnly
    \/ \E t \in Capturers : LoopContinues(t) /\ CamOnly
    \/ \E t \in Capturers, sendable \in BOOLEAN : Respond(t, sendable) /\ CamOnly

CamSpecInit == Rest /\ ClassIdle /\ SunIdle /\ GateIdle /\ CamInit

CamSpec == CamSpecInit /\ [][CamNext]_vars

AstroNext ==
    \/ \E loc \in Locs : GetBrightStarsForImage(loc) /\ AstroOnly
    \/ \E loc \in Locs, planets_ok \in BOOLEAN :
          GetAstronomySummary(loc, planets_ok) /\ AstroOnly
    \/ AstroTick /\ AstroOnly

AstroSpecInit == Rest /\ ClassIdle /\ SunIdle /\ GateIdle /\ CamInit

AstroSpec == AstroSpecInit /\ [][AstroNext]_vars

HandlerNext ==
    \/ \E t \in Handlers : HandleBegin(t) /\ HandlerOnly
    \/ \E t \in Handlers : LoadCount(t) /\ HandlerOnly
    \/ \E t \in Handlers : StoreCount(t) /\ HandlerOnly
    \/ \E t \in Handlers : AppendError(t) /\ HandlerOnly
    \/ \E t \in Handlers : CheckLength(t) /\ HandlerOnly
    \/ \E t \in Handlers : PopOldest(t) /\ HandlerOnly

HandlerSpecInit ==
    /\ SchedDefault /\ WeatherInit /\ RetentionEmpty /\ ImageInit /\ IndexIdle
    /\ RetryIdle /\ ClassIdle /\ SunIdle /\ GateIdle /\ CamInit /\ AstroInit
    /\ HandlerInit

HandlerSpec == HandlerSpecInit /\ [][HandlerNext]_vars

(***************************************************************************)
(* Properties of ScheduledCapture                                          *)
(***************************************************************************)

\* C1: start() returns false and changes nothing when the scheduler is
\* already running or auto-capture is disabled; in every other case it turns
\* is_running from false to true, spawns a new loop thread that becomes
\* self.thread, and returns true.
C1_StartContract ==
    [][ nstart' = nstart + 1 =>
          IF is_running \/ ~auto_capture
          THEN /\ startRet' = FALSE
               /\ UNCHANGED <<is_running, stop_event, thread, tpc, nthreads,
                              twait, notified>>
          ELSE /\ startRet' = TRUE
               /\ ~is_running /\ is_running'
               /\ nthreads' = nthreads + 1
               /\ thread' = nthreads'
               /\ tpc[thread'] = "unborn" /\ tpc'[thread'] = "check"
               /\ \A t \in Threads \ {thread'} : tpc'[t] = tpc[t]
      ]_vars

\* C1 witness: a start() refused because the scheduler was already running,
\* after an earlier start() that spawned the loop.
C1_Witness ==
    /\ nstart >= 2 /\ nthreads = 1
    /\ is_running /\ startRet = FALSE /\ Alive(1)

\* C2: at most one capture loop is alive at any time.
C2_AtMostOneLoop == Cardinality(AliveLoops) <= 1

\* C3: when stop() has set the signal while the scheduler's loop thread
\* sleeps in stop_event.wait, the thread wakes and ends and stop() returns,
\* with no need for the interval timer to fire (SchedFairSpec puts no
\* fairness on WaitTimeout).
C3_StopWakesSleepingLoop ==
    (ctl = "stop_join" /\ thread \in notified /\ CurrentLoopPc \in WaitPcs)
        ~> (ctl = "idle" /\ CurrentLoopPc = "dead")

\* C3 witness: stop() has signalled and joins the loop thread, which sleeps
\* for an interval of 3,600 s.
C3_Witness ==
    \E t \in Threads :
        /\ thread = t /\ ctl = "stop_join" /\ t \in notified
        /\ tpc[t] = "wait" /\ twait[t] = 3600

\* C4: a loop thread whose loop condition has read the cancellation signal
\* never enters the capture callback again.
C4_NoCaptureAfterSignalSeen ==
    [][ \A t \in Threads :
          sawSignal[t] => ~(tpc[t] # "capturing" /\ tpc'[t] = "capturing")
      ]_vars

\* C4 witness: a loop thread has read the signal set by stop() and ended,
\* while stop() still waits in its join.
C4_Witness ==
    \E t \in Threads : sawSignal[t] /\ tpc[t] = "dead" /\ ctl = "stop_join"

\* C5: an exception of the capture callback does not end the loop: the
\* thread stays alive, is_running is unchanged, the thread waits
\* min(capture_interval, 60) in a wait the stop signal ends, and goes from
\* that wait to the loop condition.
C5_CallbackFailureKeepsLoop ==
    /\ [][ \A t \in Threads :
             /\ (tpc[t] = "capturing" /\ tpc'[t] # "capturing") =>
                   /\ tpc'[t] \in WaitPcs
                   /\ is_running' = is_running
                   /\ twait'[t] \in {capture_interval, Min(capture_interval, 60)}
             /\ (tpc[t] # "errwait" /\ tpc'[t] = "errwait") =>
                   /\ tpc[t] = "capturing"
                   /\ twait'[t] = Min(capture_interval, 60)
             /\ (tpc[t] = "errwait" /\ tpc'[t] # "errwait") => tpc'[t] = "check"
         ]_vars
    /\ [](\A t \in Threads :
             (tpc[t] = "errwait" /\ stop_event)
                => ENABLED (WaitWake(t) /\ SchedOnly))

\* C5 witness: with an interval of 3,600 s a loop thread waits 60 s after a
\* failed callback while the scheduler is still running.
C5_Witness ==
    \E t \in Threads :
        /\ tpc[t] = "errwait" /\ twait[t] = 60
        /\ capture_interval = 3600 /\ is_running /\ thread = t


(***************************************************************************)
(* Properties of the weather cache                                         *)
(***************************************************************************)

\* C6: a get answered from the cache returns an entry that is younger than
\* the time to live, counted from that entry's own fetch; an entry at least
\* CacheDuration old is never returned as valid, whatever was fetched for
\* other keys meanwhile.
C6_HitIsYoungerThanTtl ==
    wres.kind = "hit" => wres.at - wres.val.update_time < CacheDuration

\* C7: single-flight: no two callers are inside the provider call for the
\* same cache key at the same time.
C7_SingleFlight ==
    \A c1, c2 \in Callers :
        (c1 # c2 /\ wpc[c1] = "fetching" /\ wpc[c2] = "fetching")
            => CacheKey(wloc[c1]) # CacheKey(wloc[c2])

\* C8: when the fetch for a key fails and the cache holds a value for that
\* key, the value returned is one that was fetched for that key.
C8_StaleValueIsOfTheKey ==
    (wres.kind = "stale" /\ wres.hadKey) => CacheKey(wres.val.loc) = wres.key

\* C9: get_weather_data never raises; a fetch that fails while nothing is
\* cached returns the default record, whose conditions are "N/A", and
\* changes neither the cache nor last_update.
C9_FetchFailureIsNotFatal ==
    /\ [](wres.kind # "raised")
    /\ [][ \A c \in Callers :
             (wpc[c] = "fetching" /\ wpc'[c] = "idle" /\ cache = <<>>
              /\ wres'.kind # "fetched")
                => /\ wres'.caller = c
                   /\ wres'.kind = "default"
                   /\ wres'.val.cond = "N/A"
                   /\ cache' = <<>>
                   /\ last_update' = last_update
         ]_vars

\* C9 witness: a fetch failed with an empty cache and the caller got the
\* default record.
C9_Witness ==
    /\ wres.kind = "default" /\ wres.val.cond = "N/A"
    /\ cache = <<>> /\ last_update = 0 /\ nfetch >= 1

(***************************************************************************)
(* Properties of the retention sweep                                       *)
(***************************************************************************)

SweepSeen == OnDisk(sweep.mt)

SweepSelected == Range(sweep.old)

Position(l, p) == CHOOSE i \in DOMAIN l : l[i] = p

\* C10 as stated: with n files and ceiling c nothing is selected when
\* n <= c, and otherwise exactly the n - c images with the oldest capture
\* times (the lowest paths) are selected.
C10_SelectsOldestByCaptureTime ==
    sweep.done =>
        IF Cardinality(SweepSeen) <= max_stored_images
        THEN SweepSelected = {}
        ELSE /\ Cardinality(SweepSelected) = Cardinality(SweepSeen) - max_stored_images
             /\ SweepSelected \subseteq SweepSeen
             /\ \A s \in SweepSelected, u \in SweepSeen \ SweepSelected : s < u

\* C10 amended: with n files and ceiling c nothing is selected when n <= c,
\* and otherwise exactly n - c files are selected, those with the oldest
\* modification times; among files of equal modification time those the
\* directory listing yields first are selected first.
C10_SelectsOldestByMtime ==
    sweep.done =>
        IF Cardinality(SweepSeen) <= max_stored_images
        THEN SweepSelected = {}
        ELSE /\ Len(sweep.old) = Cardinality(SweepSeen) - max_stored_images
             /\ Cardinality(SweepSelected) = Len(sweep.old)
             /\ SweepSelected \subseteq SweepSeen
             /\ \A s \in SweepSelected, u \in SweepSeen \ SweepSelected :
                   \/ sweep.mt[s] < sweep.mt[u]
                   \/ /\ sweep.mt[s] = sweep.mt[u]
                      /\ Position(sweep.listing, s) < Position(sweep.listing, u)

\* C10 witness: a sweep over a corpus two files above the ceiling, with
\* files of equal modification time on both sides of the cut.
C10_Witness ==
    /\ sweep.done
    /\ Cardinality(SweepSeen) = max_stored_images + 2
    /\ Cardinality(SweepSelected) = 2
    /\ \E s \in SweepSelected, u \in SweepSeen \ SweepSelected :
          sweep.mt[s] = sweep.mt[u]

\* What the sweep left of the directory it saw: the files it processed are
\* gone, the others keep their modification time.
SweepProcessed == {p \in SweepSelected : disk[p] = 0}

\* C12: a selected file whose move or removal fails does not end the sweep:
\* every other selected file is moved or removed, and with archival enabled
\* is in the archive.
C12_FailureDoesNotAbortSweep ==
    sweep.done =>
        /\ SweepProcessed = SweepSelected \ sweep.failed
        /\ archive_enabled => (SweepSelected \ sweep.failed) \subseteq archive
        /\ \A p \in sweep.failed : disk[p] = sweep.mt[p]

\* C12 witness: a sweep in which the first selected file failed and a later
\* one was processed.
C12_Witness ==
    /\ sweep.done
    /\ Len(sweep.old) >= 2
    /\ sweep.old[1] \in sweep.failed
    /\ sweep.old[2] \notin sweep.failed
    /\ disk[sweep.old[2]] = 0

\* C34: a sweep moves or removes as image.archive_enabled says: with
\* archival every image it evicts is gone from the base directory and is in
\* the archive under the same relative path, and nothing else enters the
\* archive; without archival the evicted images are gone and the archive
\* is as it was.
C34_EvictionFollowsConfiguration ==
    sweep.done =>
        LET evicted == Range(sweep.old) \ sweep.failed
        IN /\ \A p \in evicted : sweep.mt[p] # 0 /\ disk[p] = 0
           /\ archive = IF archive_enabled THEN sweep.was \cup evicted
                        ELSE sweep.was

\* C34 witness: with archival enabled a sweep evicted an image, which is in
\* the archive and no longer in the base directory.
C34_Witness ==
    /\ sweep.done
    /\ archive_enabled
    /\ \E p \in Range(sweep.old) \ sweep.failed : p \in archive /\ disk[p] = 0

\* C38: the counts a sweep returns are the files it moved and the files it
\* removed, also when the move or removal of some selected file failed.
C38_SweepCountsExact ==
    sweep.done =>
        /\ sweep.ret.archived =
              IF archive_enabled
              THEN Cardinality(Range(sweep.old) \ sweep.failed) ELSE 0
        /\ sweep.ret.deleted =
              IF archive_enabled THEN 0
              ELSE Cardinality(Range(sweep.old) \ sweep.failed)

(***************************************************************************)
(* Properties of ImageManager                                              *)
(***************************************************************************)
\* The images the sweep of the last save moved or removed
Evicted == SweepSelected \ sweep.failed

\* C11: after a save in which every move or removal succeeded, the base
\* directory holds at most max_stored_images image files, and a sweep of
\* that directory selects nothing, whatever order the listing has.
C11_SaveKeepsCeiling ==
    (img.op = "save" /\ sweep.failed = {}) =>
        /\ Cardinality(OnDisk(disk)) <= max_stored_images
        /\ \A all_files \in Listings(disk) : OldFiles(all_files, disk) = <<>>

\* C11 witness: a save whose sweep evicted an image, every move or removal
\* succeeding, that left the directory exactly at a ceiling of at least one.
C11_Witness ==
    /\ img.op = "save"
    /\ sweep.failed = {}
    /\ Evicted # {}
    /\ max_stored_images >= 1
    /\ Cardinality(OnDisk(disk)) = max_stored_images

\* C13: after a save whose sweep evicted images, neither the metadata cache
\* nor the index file written by that save has a record of an evicted image.
C13_EvictedLeaveTheIndex ==
    img.op = "save" =>
        \A p \in Evicted :
            /\ metadata_cache[p] = 0
            /\ metadata_file.recs[p] = 0

\* C14: loading the index does not raise, and leaves in the cache exactly
\* the records of the index file whose image file exists; a missing or
\* unreadable index file leaves the cache empty.
C14_LoadKeepsExistingOnly ==
    img.op = "load" =>
        /\ img.ret # "raised"
        /\ \A p \in Paths :
              metadata_cache[p] =
                  IF metadata_file.state = "ok" /\ disk[p] # 0
                  THEN metadata_file.recs[p] ELSE 0
        /\ metadata_file.state # "ok" => metadata_cache = NoRecords

\* C14 witness: a load of an index with a record whose file is there and a
\* record whose file is gone.
C14_Witness ==
    /\ img.op = "load"
    /\ metadata_file.state = "ok"
    /\ \E p, q \in Paths :
          /\ metadata_file.recs[p] # 0 /\ disk[p] # 0 /\ metadata_cache[p] # 0
          /\ metadata_file.recs[q] # 0 /\ disk[q] = 0

\* The paths whose record matches the last query and whose file exists
QueryMatches ==
    {p \in Paths : /\ metadata_cache[p] # 0
                   /\ query.start # 0 => metadata_cache[p] >= query.start
                   /\ query.end # 0 => metadata_cache[p] <= query.end
                   /\ disk[p] # 0}

QueryReturned == {query.ret[i].image_path : i \in DOMAIN query.ret}

\* C15: get_images returns at most limit records, each of an existing file
\* with its capture time within [start, end], newest first, and they are
\* the newest matching ones: as many as match up to the limit, none older
\* than a matching record left out.
C15_QueryNewestFirst ==
    query.done =>
        /\ Len(query.ret) <= query.limit
        /\ Len(query.ret) = Min(query.limit, Cardinality(QueryMatches))
        /\ Cardinality(QueryReturned) = Len(query.ret)
        /\ QueryReturned \subseteq QueryMatches
        /\ \A i \in DOMAIN query.ret :
              query.ret[i].capture_time =
                  IsoFormat(metadata_cache[query.ret[i].image_path])
        /\ \A i, j \in DOMAIN query.ret :
              i < j => metadata_cache[query.ret[i].image_path]
                          > metadata_cache[query.ret[j].image_path]
        /\ \A p \in QueryReturned, q \in QueryMatches \ QueryReturned :
              metadata_cache[q] < metadata_cache[p]

\* C15 witness: a query with both dates given and two matching records that
\* returned the newer one only, the limit being one.
C15_Witness ==
    /\ query.done
    /\ query.start # 0
    /\ query.end # 0
    /\ query.limit = 1
    /\ Len(query.ret) = 1
    /\ Cardinality(QueryMatches) = 2

\* C16: rewrites of the index are serialized: at no time are two threads
\* inside _save_metadata, and the index file never holds the mixed output
\* of two rewrites.
C16_RewritesSerialized ==
    /\ Cardinality(Rewriting) <= 1
    /\ metadata_file.state # "mixed"

(***************************************************************************)
(* Properties of retry_on_failure                                          *)
(***************************************************************************)
\* The invocations of func that raised
Failures == {i \in DOMAIN outcomes : outcomes[i] = "raised"}

\* C17: func is invoked at most max_retries + 1 times; the wrapper returns
\* at the first invocation that returns, with its value, every invocation
\* before it having raised; and it raises only after max_retries + 1
\* invocations that all raised, the exception being that of the last one.
C17_RetryCountsAndResult ==
    /\ Len(outcomes) <= max_retries + 1
    /\ \A i \in DOMAIN outcomes : outcomes[i] = "returned" => i = Len(outcomes)
    /\ rpc = "returned" <=>
          (outcomes # <<>> /\ outcomes[Len(outcomes)] = "returned")
    /\ rpc = "returned" =>
          /\ rret = Len(outcomes)
          /\ Cardinality(Failures) = Len(outcomes) - 1
    /\ rpc = "raised" =>
          /\ Len(outcomes) = max_retries + 1
          /\ Cardinality(Failures) = max_retries + 1
          /\ rret = max_retries + 1
    /\ rpc \in {"calling", "sleeping"} => Cardinality(Failures) <= max_retries

\* C17 witness: with max_retries = 3, func raised twice and then returned:
\* three invocations.
C17_Witness ==
    /\ max_retries = 3
    /\ rpc = "returned"
    /\ outcomes = <<"raised", "raised", "returned">>

\* C18: the i-th sleep (i from 0) lasts delay * 2^i with exponential
\* backoff and delay without; there is one sleep after each failed attempt
\* but the last one, and none after an attempt that returned.
C18_BackoffDelays ==
    /\ \A i \in DOMAIN slept :
          slept[i] = IF exponential_backoff THEN delay * (2 ^ (i - 1))
                     ELSE delay
    /\ Len(slept) <= max_retries
    /\ rpc = "sleeping" => Len(slept) = Len(outcomes)
    /\ rpc = "calling" => Len(slept) = Len(outcomes)
    /\ rpc \in {"returned", "raised"} => Len(slept) = Len(outcomes) - 1

\* C18 witness: with exponential backoff every attempt failed, three sleeps
\* having been taken, each twice the one before.
C18_Witness ==
    /\ exponential_backoff
    /\ rpc = "raised"
    /\ Len(slept) = 3
    /\ slept[2] = 2 * slept[1]
    /\ slept[3] = 2 * slept[2]

(***************************************************************************)
(* Properties of ErrorHandler                                              *)
(***************************************************************************)
\* How many of the errors handled since the last clearing the buffer holds
Kept == IF since_clear < max_stored_errors THEN since_clear
        ELSE max_stored_errors

\* C19: the buffer never holds more than max_stored_errors entries; it holds
\* the last min(n, max_stored_errors) of the n errors handled since it was
\* last emptied, oldest first, and last_error is the latest of them, the
\* one handle_error returned.
C19_BufferHoldsMostRecent ==
    /\ Len(last_errors) <= max_stored_errors
    /\ Len(last_errors) = Kept
    /\ \A i \in 1..Kept : last_errors[i] = nrecorded - Kept + i
    /\ ErrorStatistics.recent_errors = Kept
    /\ ErrorStatistics.last_error = IF Kept > 0 THEN nrecorded ELSE 0
    /\ Kept > 0 => ErrorStatistics.last_error = err_ret.id

\* C19 witness: more errors than the buffer holds were handled with no
\* clearing in between; the buffer is full and starts after the dropped one.
C19_Witness ==
    /\ since_clear = nrecorded
    /\ nrecorded > max_stored_errors
    /\ Len(last_errors) = max_stored_errors
    /\ last_errors[1] = nrecorded - max_stored_errors + 1

\* C20: error_count never decreases, grows by exactly one in every
\* handle_error, and total_errors is never below the length of the buffer.
C20_CounterOnlyGrows ==
    /\ [](ErrorStatistics.total_errors >= ErrorStatistics.recent_errors)
    /\ [][/\ error_count' >= error_count
          /\ nrecorded' = nrecorded + 1 => error_count' = error_count + 1
          /\ nrecorded' = nrecorded => error_count' = error_count]_vars

\* C20 witness: the history was cleared after more errors than the buffer
\* holds; the counter still counts all of them.
C20_Witness ==
    /\ nrecorded > max_stored_errors
    /\ since_clear = 0
    /\ last_errors = <<>>
    /\ error_count = nrecorded

(***************************************************************************)
(* Properties of calculate_exposure_settings                               *)
(***************************************************************************)
Classified == settings # ""

\* The periods whose condition holds for the time and the sun data
Holding ==
    {period \in {time_periods[i] : i \in DOMAIN time_periods} :
        Condition(period, current_time, sun_data.at, comparable) = "T"}

\* The sun data are in order and their times can be compared with the
\* time asked for
Orderly == Monotonic(sun_data) /\ comparable

\* The period of the interval that starts at the i-th boundary
PeriodFrom(i) ==
    <<"astronomical", "nautical", "civil", "day", "civil", "nautical",
      "astronomical", "night">>[i]

\* C21: with sun data in order, exactly one of the five conditions holds
\* for any time, and both functions return the settings of its period.
C21_PeriodsPartitionTheDay ==
    (Classified /\ Orderly) =>
        /\ Cardinality(Holding) = 1
        /\ settings \in Holding
        /\ legacy_settings = settings

\* C21 witness: the boundaries from sunrise on all differ and the time
\* lies in the nautical dusk, which alone holds.
C21_Witness ==
    /\ Classified /\ Orderly
    /\ sun_data.at["sunrise"] < sun_data.at["sunset"]
    /\ sun_data.at["sunset"] < sun_data.at["civil_dusk"]
    /\ sun_data.at["civil_dusk"] = current_time
    /\ current_time < sun_data.at["nautical_dusk"]
    /\ sun_data.at["nautical_dusk"] < sun_data.at["astronomical_dusk"]
    /\ Holding = {"nautical"}
    /\ settings = "nautical"

\* C22: with sun data in order, a time exactly at a boundary gets the
\* settings of the period whose interval starts there, whenever that
\* interval is not empty, and night at astronomical_dusk: sunrise gives
\* day, sunset civil.
C22_BoundaryStartsItsPeriod ==
    (Classified /\ Orderly) =>
        \A i \in DOMAIN Boundaries :
            (/\ current_time = sun_data.at[Boundaries[i]]
             /\ i < Len(Boundaries) =>
                   current_time < sun_data.at[Boundaries[i + 1]])
            => /\ settings = PeriodFrom(i)
               /\ legacy_settings = PeriodFrom(i)

\* C22 witness: the time is the instant of sunrise, before sunset and after
\* civil dawn, and the settings are those of the day.
C22_Witness ==
    /\ Classified /\ Orderly
    /\ sun_data.at["civil_dawn"] < sun_data.at["sunrise"]
    /\ current_time = sun_data.at["sunrise"]
    /\ current_time < sun_data.at["sunset"]
    /\ settings = "day"

\* C23: for any time and any sun data, AstronomyCalculator's function
\* returns the settings of one period and does not raise; it returns night
\* when the time is before astronomical_dawn, when it is at or after
\* astronomical_dusk, and when no condition holds.
C23_TotalAndNightOutside ==
    Classified =>
        /\ settings \in {time_periods[i] : i \in DOMAIN time_periods}
        /\ (/\ sun_data.ok /\ comparable
            /\ sun_data.at["astronomical_dawn"] # Missing
            /\ current_time < sun_data.at["astronomical_dawn"])
           => settings = "night"
        /\ (/\ sun_data.ok /\ comparable
            /\ sun_data.at["astronomical_dusk"] # Missing
            /\ current_time >= sun_data.at["astronomical_dusk"])
           => settings = "night"
        /\ (sun_data.ok /\ Holding = {}) => settings = "night"
        /\ ~sun_data.ok => settings = "night"

(***************************************************************************)
(* Properties of the sun data cache                                        *)
(***************************************************************************)
\* C24: when sun() fails, get_sun_data does not raise: it returns None and
\* None is what the cache holds for the key; calculate_exposure_settings
\* returns the night settings whenever the sun data it gets are None.
C24_FailureBecomesNight ==
    /\ ~sun_call.raised
    /\ sun_call.failed =>
          /\ sun_call.ret = Unavailable
          /\ sun_call.key \in DOMAIN sun_cache
          /\ sun_cache[sun_call.key] = Unavailable
    /\ (sun_call.op = "calculate_exposure_settings" /\ ~sun_call.ret.ok) =>
          sun_call.settings = "night"

\* C24 witness: the settings are asked for a key whose cached entry is
\* None; sun() is not called again and the settings are those of the night.
C24_Witness ==
    /\ sun_call.op = "calculate_exposure_settings"
    /\ ~sun_call.invoked
    /\ sun_call.ret = Unavailable
    /\ \E ts \in DOMAIN sun_cache : sun_cache[ts] = Unavailable
    /\ sun_call.settings = "night"

\* C25: for one station, sun() is called at most once for a calendar date,
\* however many timestamps of that date are looked up.
C25_OneEphemerisCallPerDate ==
    \A st \in Stations, d \in Dates : ephemeris[st, d] <= 1

\* C26: sun data returned by a lookup were computed for the station
\* self.city holds at the time of the lookup.
C26_NoSunDataOfOldLocation ==
    (/\ sun_call.op \in {"get_sun_data", "calculate_exposure_settings"}
     /\ sun_call.ret.ok)
    => sun_call.ret.station = city

C28_WeatherDenies ==
    (gate.asked /\ weather_check /\ ~gate.weather_ok) =>
        (~gate.approved /\ ~gate.invoked)

(***************************************************************************)
(* Properties of the capture device                                        *)
(***************************************************************************)
\* C29: at most one thread is between the start of configure and the end
\* of the frame read, and it holds camera_lock; a thread that has left
\* capture_callback, its capture failed or not, does not hold the lock.
C29_DeviceUnderLock ==
    /\ Cardinality(AtDevice) <= 1
    /\ \A t \in AtDevice : camera_lock = t
    /\ \A t \in Capturers \ InsideLock : camera_lock # t
    /\ camera_lock = 0 <=> InsideLock = {}

\* C29 witness: the capture of a request thread failed after its retries
\* and the thread left the callback; the scheduler thread then took the
\* lock and is reading a frame.
C29_Witness ==
    /\ \E t \in Capturers \ {SchedulerThread} :
          cpc[t] = "returned" /\ cfailed[t]
    /\ cpc[SchedulerThread] = "read"
    /\ camera_lock = SchedulerThread

\* C30: a request whose capture failed after the retries is not answered
\* with an image.
C30_FailureReachesHttpCaller ==
    \A t \in Capturers \ {SchedulerThread} :
        (cres[t].status # 0 /\ cfailed[t]) =>
            (cres[t].status = 500 /\ cres[t].image = 0)

\* C31: every capture that ended without an image saved, in the scheduler
\* thread or in a request thread, has been counted by the error handler:
\* the total error counter is at least the number of failed captures.
C31_FailedCapturesCounted == error_count >= nfailed

(***************************************************************************)
(* Properties of the celestial cache                                       *)
(***************************************************************************)
\* C32: a request made less than the cache duration after the last
\* computation for the same rounded location is answered from the cache,
\* whatever minute it falls in.
C32_OneComputationWithinDuration ==
    (/\ astro_req.n > 0
     /\ astro_req.prev >= 0
     /\ astro_req.at - astro_req.prev < AstroCacheDuration)
        => astro_req.hit

\* C33: however many requests are made, the celestial cache holds at most
\* one entry for a rounded location: a stale entry is replaced.
C33_CelestialCacheBounded ==
    \A loc \in Locs :
        Cardinality({e \in astro_cache : e.key[1] = CacheKey(loc)}) <= 1

\* C39: a request that includes planets is answered with a snapshot whose
\* planet list was computed, for the request's rounded location.
C39_PlanetsComputedForRequest ==
    (astro_req.n > 0 /\ astro_req.include_planets) =>
        /\ astro_req.data.planets # "skipped"
        /\ CacheKey(astro_req.data.observer) = CacheKey(astro_req.loc)

(***************************************************************************)
(* Properties of the records of ImageManager                               *)
(***************************************************************************)
\* The image files there when the step's operation rewrites the index: a
\* save rewrites after the new file is written and before its sweep, a
\* deletion after the file is removed
ExistsAtRewrite(p) ==
    IF img'.op = "save" THEN p = img'.path \/ disk[p] # 0 ELSE disk'[p] # 0

\* The step's operation rewrites the index
Rewrites ==
    \/ img'.op \in {"save", "cleanup"}
    \/ img'.op = "delete" /\ metadata_cache[img'.path] # 0

\* C35: every rewrite of the index leaves in the file exactly the records
\* of the cache that are newer than the 30-day horizon and whose image
\* file exists when the rewrite runs; nothing of the file's earlier
\* content stays.
C35_RewritePersistsRecentExisting ==
    [][(nops' = nops + 1 /\ Rewrites) =>
          /\ metadata_file'.state = "ok"
          /\ \A p \in Paths :
                metadata_file'.recs[p] =
                    IF /\ metadata_cache'[p] # 0
                       /\ metadata_cache'[p] > horizon
                       /\ ExistsAtRewrite(p)
                    THEN metadata_cache'[p] ELSE 0]_vars

\* C35 witness: a save rewrote the index while the cache held the record of
\* an image whose file was gone; the index has the record of the new image
\* and not that one.
C35_Witness ==
    /\ img.op = "save"
    /\ metadata_file.state = "ok"
    /\ metadata_file.recs[img.path] # 0
    /\ \E q \in Paths \ {img.path} :
          /\ metadata_cache[q] # 0
          /\ disk[q] = 0
          /\ q \notin Range(sweep.old)
          /\ metadata_file.recs[q] = 0

\* C36: the record of a saved image stays as it is until the image is
\* deleted: a later save, also one whose capture time falls in the same
\* second, makes a record and a file of its own.
C36_RecordsImmutable ==
    [][\A p \in Paths :
          metadata_cache[p] # 0 =>
              \/ metadata_cache'[p] = metadata_cache[p]
              \/ img'.op = "delete" /\ img'.path = p]_vars

\* C37: with a ceiling of at least one, the image file of a save that
\* returned its path is in the base directory after the save.
C37_SavedImageSurvivesItsSweep ==
    (img.op = "save" /\ img.ret = "path" /\ max_stored_images >= 1) =>
        disk[img.path] # 0

(***************************************************************************)
(* Properties of the error handler under concurrent calls                  *)
(***************************************************************************)
\* C40: when the handle_error calls made by concurrent threads have all
\* returned, the counter has grown by exactly the number of calls, and the
\* buffer holds at most max_stored_errors entries.
C40_NoLostErrorCount ==
    (\A t \in Handlers : hpc[t] = "idle") =>
        /\ error_count = hbase + hcalls
        /\ Len(last_errors) <= max_stored_errors

=============================================================================
